---- MODULE Spec2Model ----
(***************************************************************************)
(* Model of the webhook condition evaluator and dispatch engine of         *)
(* packages/nocodb/src/helpers/webhookHelpers.ts.                          *)
(*                                                                         *)
(* JavaScript values are modelled as follows.                              *)
(*   - the value a condition check produces (true, false, null, undefined) *)
(*     is one of the strings "true", "false", "null", "undefined";         *)
(*   - a cell of a record is a tagged record: Null, Num(n), Day(d);        *)
(*   - a calendar day is an integer, Today being the day `new Date()`      *)
(*     falls on.                                                           *)
(***************************************************************************)
EXTENDS Integers, Sequences, FiniteSets, TLC

VARIABLES
    vcFilters,      \* validateCondition: the `filters` argument
    vcData,         \* validateCondition: the `data` argument
    vcResult,       \* validateCondition: the value returned ("pending" before the call)
    vcClient,       \* validateCondition: the `client` option
    hook,           \* invokeWebhook: param.hook, the hook definition (an object shared with the caller)
    param,          \* invokeWebhook: prevData, newData, testFilters, throwErrorOnFailure, testHook
    storedFilters,  \* what hook.getFilters(context) resolves to at this moment
    filterUpdates,  \* how often the stored filters were changed during the invocation
    env,            \* process.env and the edition flags, as the invocation read them
    pc,             \* where the invocation is suspended
    notification,   \* local `notification`
    filters,        \* local `filters`
    newData,        \* local `newData`
    filteredData,   \* local `filteredData` of the batch loop
    idx,            \* local `i` of the batch loop, counted from 1
    reqPayload,     \* local `reqPayload`
    hookLog,        \* local `hookLog`
    checks,         \* the validateCondition calls made so far
    constructed,    \* the constructWebHookData calls made so far
    calls,          \* the delivery calls issued so far (mailSend, axios, sendMessage)
    outcome,        \* Running, Skipped, Delivered or Failed
    thrown,         \* the error invokeWebhook threw to its caller
    caught,         \* the error the catch block received
    dispatched,     \* whether `switch (notification?.type)` was entered
    insert,         \* the HookLog.insert promise: none, inflight, resolved or rejected
    hookLogs,       \* the HookLog store
    lkArgs,         \* generateLookupSelectQuery: the `column` and `isAggregation` arguments
    lkPc,           \* where the call of generateLookupSelectQuery stands
    relations,      \* the relations resolved so far, first hop first
    lookupColumn,   \* local `lookupColumn`, by its uidt
    selectQb,       \* local `selectQb`
    isBtLookup,     \* local `isBtLookup`
    aliasCount,     \* the counter inside `getAlias`
    prevAlias,      \* local `prevAlias`
    lkResult,       \* what the call returned or threw
    aggDialect,     \* the dialect of the database that runs an aggregated query
    aggRows,        \* the terminal value of each related row, in order
    aggValue,       \* the value the aggregate expression yields
    toRoute,        \* auth middleware: the route `to`
    fromRoute,      \* auth middleware: the route `from`
    appInfo,        \* state.appInfo.value and the host the page is served from
    signedIn,       \* state.signedIn.value
    mwPc,           \* where the middleware stands
    navigation,     \* what the middleware returned: nothing yet, proceed, or a redirect
    localStorage,   \* localStorage.continueAfterSignIn
    fillHandle      \* populateFillHandleStrictCopy: highlightedData, numberOfRows and the result

vcVars == <<vcFilters, vcData, vcResult, vcClient>>

whVars ==
    <<hook, param, storedFilters, filterUpdates, env, pc, notification, filters,
      newData, filteredData, idx, reqPayload, hookLog, checks, constructed, calls,
      outcome, thrown, caught, dispatched, insert, hookLogs>>

lkVars ==
    <<lkArgs, lkPc, relations, lookupColumn, selectQb, isBtLookup, aliasCount, prevAlias,
      lkResult>>

aggVars == <<aggDialect, aggRows, aggValue>>

mwVars == <<toRoute, fromRoute, appInfo, signedIn, mwPc, navigation, localStorage>>

fhVars == <<fillHandle>>

vars == <<vcVars, whVars, lkVars, aggVars, mwVars, fhVars>>

\* no fill is under way
FhIdle == fillHandle = <<>>

\* no call of generateLookupSelectQuery is under way
LkIdle ==
    /\ lkArgs = <<>> /\ lkPc = "idle" /\ relations = <<>> /\ lookupColumn = "none"
    /\ selectQb = <<>> /\ isBtLookup = FALSE /\ aliasCount = 0 /\ prevAlias = 0
    /\ lkResult = <<>>

\* no aggregated query is being run
AggIdle == aggDialect = "none" /\ aggRows = <<>> /\ aggValue = <<>>

\* no navigation is under way
MwIdle ==
    /\ toRoute = <<>> /\ fromRoute = <<>> /\ appInfo = <<>> /\ signedIn = FALSE
    /\ mwPc = "idle" /\ navigation = <<>> /\ localStorage = <<>>

-----------------------------------------------------------------------------
(* Bounds *)

\* total number of filter nodes (leaves and groups) in a filter tree
MaxFilters == 3

\* number of records in a batch passed as newData
MaxBatch == 2

\* number of times the hook's stored filters change while an invocation runs
MaxFilterUpdates == 1

\* number of users in the array a user cell holds
MaxUsers == 2

\* number of comma-separated tokens in the value of a user filter
MaxTokens == 2

\* the calendar day of `new Date()`
Today == 10

\* days in a month; day 1 is the first of the month `new Date()` falls in
MonthLen == 30

-----------------------------------------------------------------------------
(* JavaScript values *)

Null == [t |-> "null"]
Num(n) == [t |-> "num", v |-> n]
Day(d) == [t |-> "date", v |-> d]

\* truthiness of a cell value (a dayjs object or date string is truthy)
Truthy(x) == CASE x.t = "null" -> FALSE
               [] x.t = "num" -> x.v # 0
               [] OTHER -> TRUE

\* truthiness of a check value
IsTrue(r) == r = "true"

\* !!r
ToBool(r) == IF IsTrue(r) THEN "true" ELSE "false"

\* !r
JsNot(r) == IF IsTrue(r) THEN "false" ELSE "true"

\* a || b
JsOr(a, b) == IF IsTrue(a) THEN a ELSE b

\* a && b
JsAnd(a, b) == IF IsTrue(a) THEN b ELSE a

\* a ?? b
JsNullish(a, b) == IF a \in {"null", "undefined"} THEN b ELSE a

FromBool(b) == IF b THEN "true" ELSE "false"

-----------------------------------------------------------------------------
(* Columns and filters *)

\* the columns filter.getColumn(context) resolves to, by fk_column_id
\* "Month" and "Seen" are the field Due shown as year and month, and as date and time
Columns ==
    [c \in {"Num", "Due", "Month", "Seen", "Owner", "Creator", "Editor"} |->
        CASE c = "Num" -> [title |-> "Num", uidt |-> "Number", date_format |-> ""]
          [] c = "Due" -> [title |-> "Due", uidt |-> "Date", date_format |-> "YYYY-MM-DD"]
          [] c = "Month" -> [title |-> "Due", uidt |-> "Date", date_format |-> "YYYY-MM"]
          [] c = "Seen" -> [title |-> "Due", uidt |-> "DateTime", date_format |-> ""]
          [] c = "Owner" -> [title |-> "Owner", uidt |-> "User", date_format |-> ""]
          [] c = "Creator" -> [title |-> "Owner", uidt |-> "CreatedBy", date_format |-> ""]
          [] c = "Editor" -> [title |-> "Owner", uidt |-> "LastModifiedBy", date_format |-> ""]]

\* source?.type of the hook's source
SourceType == "pg"

\* the values of `client`
Clients == {"mysql2", "pg", "sqlite3"}

UserTypes == {"User", "CreatedBy", "LastModifiedBy"}

DateTypes == {"Date", "DateTime", "CreatedTime", "LastModifiedTime"}

EmptyOps == {"empty", "blank", "notempty", "notblank"}

\* logical_op values; "" is an unset logical_op
LogicalOps == {"", "and", "or", "not"}

Leaf(lop, col, op, sub, value) ==
    [is_group |-> FALSE, logical_op |-> lop, fk_column_id |-> col,
     comparison_op |-> op, comparison_sub_op |-> sub, value |-> value,
     children |-> <<>>]

Group(lop, children) ==
    [is_group |-> TRUE, logical_op |-> lop, fk_column_id |-> "",
     comparison_op |-> "", comparison_sub_op |-> "", value |-> Null,
     children |-> children]

-----------------------------------------------------------------------------
(* validateCondition: the comparison of one leaf *)

\* dayjs(a).isSame(b, 'day'); an absent or non-date operand is an invalid date
IsSameDay(a, b) == a.t = "date" /\ b.t = "date" /\ a.v = b.v
IsAfterDay(a, b) == a.t = "date" /\ b.t = "date" /\ a.v > b.v
IsBeforeDay(a, b) == a.t = "date" /\ b.t = "date" /\ a.v < b.v

\* +x
IsNaN(x) == x.t \notin {"num", "null"}
ToNumber(x) == IF x.t = "num" THEN x.v ELSE 0

\* no sub-operation returning early
NoValueSubOps == {}

\* the sub-operations that return early when the filter has no value
ValueSubOps ==
    {"daysAgo", "daysFromNow", "exactDate", "pastNumberOfDays", "nextNumberOfDays"}

\* isDateMonthFormat(format): the format shows no day of the month
isDateMonthFormat(format) == format \in {"YYYY-MM"}

\* dayjs(d).date(1)
FirstOfMonth(d) == d - ((d - 1) % MonthLen)

\* `switch (filter.comparison_sub_op)`: the date the record is compared with
SubOpValue(sub, filterVal, now) ==
    CASE sub = "today" -> Day(now)
      [] sub = "tomorrow" -> Day(now + 1)
      [] sub = "yesterday" -> Day(now - 1)
      [] sub = "oneWeekAgo" -> Day(now - 7)
      [] sub = "oneWeekFromNow" -> Day(now + 7)
      [] sub = "oneMonthAgo" -> Day(now - MonthLen)
      [] sub = "oneMonthFromNow" -> Day(now + MonthLen)
      [] sub = "daysAgo" -> Day(now - ToNumber(filterVal))
      [] sub = "daysFromNow" -> Day(now + ToNumber(filterVal))
      [] sub = "pastWeek" -> Day(now - 7)
      [] sub = "pastMonth" -> Day(now - MonthLen)
      [] sub = "pastYear" -> Day(now - 12 * MonthLen)
      [] sub = "nextWeek" -> Day(now + 7)
      [] sub = "nextMonth" -> Day(now + MonthLen)
      [] sub = "nextYear" -> Day(now + 12 * MonthLen)
      [] sub = "pastNumberOfDays" -> Day(now - ToNumber(filterVal))
      [] sub = "nextNumberOfDays" -> Day(now + ToNumber(filterVal))
      [] OTHER -> filterVal

\* dateFormat
DateFormat(client) ==
    IF client = "mysql2" THEN "YYYY-MM-DD HH:mm:ss" ELSE "YYYY-MM-DD HH:mm:ssZ"

\* dayjs(new Date()).format(dateFormat), cut to its first ten characters for a
\* Date column: the day, and whether a time and an offset follow it
FormatNow(dateFormat, uidt) ==
    [day |-> Today, time |-> uidt # "Date",
     offset |-> uidt # "Date" /\ dateFormat = "YYYY-MM-DD HH:mm:ssZ"]

\* dayjs(string): a string without offset is read as local time, a string with
\* an offset is the instant it names; its day of the local calendar
ParseDay(string) == Day(string.day)

\* dayjs(d).isBetween(a, b, 'day'): strictly between the two, in either order
IsBetween(d, a, b) ==
    \/ IsAfterDay(d, a) /\ IsBeforeDay(d, b)
    \/ IsBeforeDay(d, a) /\ IsAfterDay(d, b)

PastSubOps == {"pastWeek", "pastMonth", "pastYear", "pastNumberOfDays"}

NextSubOps == {"nextWeek", "nextMonth", "nextYear", "nextNumberOfDays"}

\* `switch (filter.comparison_op)` of the date branch; res0 is kept when no case
\* matches; withinNow is the `now` that isWithin formats for itself
DateCompare(op, sub, dataVal, filterVal, res0, withinNow) ==
    CASE op = "eq" -> FromBool(IsSameDay(dataVal, filterVal))
      [] op = "neq" -> FromBool(~IsSameDay(dataVal, filterVal))
      [] op = "gt" -> FromBool(IsAfterDay(dataVal, filterVal))
      [] op = "lt" -> FromBool(IsBeforeDay(dataVal, filterVal))
      [] op \in {"lte", "le"} ->
            FromBool(IsSameDay(dataVal, filterVal) \/ IsBeforeDay(dataVal, filterVal))
      [] op \in {"gte", "ge"} ->
            FromBool(IsSameDay(dataVal, filterVal) \/ IsAfterDay(dataVal, filterVal))
      [] op = "isWithin" /\ sub \in PastSubOps ->
            FromBool(IsBetween(dataVal, filterVal, ParseDay(withinNow)))
      [] op = "isWithin" /\ sub \in NextSubOps ->
            FromBool(IsBetween(dataVal, ParseDay(withinNow), filterVal))
      [] OTHER -> res0

\* the date branch with the reference day of the sub-operations read back from
\* the formatted string as a time of day in UTC
DateLeafNowFromString(filter, dataVal, client) ==
    LET column == Columns[filter.fk_column_id]
        today == IF DateFormat(client) = "YYYY-MM-DD HH:mm:ss" THEN Today + 1 ELSE Today
        now == IF isDateMonthFormat(column.date_format) THEN FirstOfMonth(today) ELSE today
        filterVal0 == filter.value
        sub == filter.comparison_sub_op
        res0 == IF Truthy(filterVal0)
                   THEN FromBool(IsSameDay(filterVal0, dataVal))
                   ELSE "undefined"
    IN  IF sub \in ValueSubOps /\ ~Truthy(filterVal0)
           THEN "return"
           ELSE IF Truthy(dataVal)
                   THEN DateCompare(filter.comparison_op, sub, dataVal,
                                    SubOpValue(sub, filterVal0, now), res0,
                                    FormatNow(DateFormat(client), column.uidt))
                   ELSE res0

\* the date branch of a leaf: "return" stands for the bare `return;` that leaves
\* validateCondition with undefined. For a month format `now` is set back to the
\* 1st; the record's value is set back in `val`, which is not read again: the
\* comparisons read dataVal, taken before
DateLeaf(filter, dataVal, client) ==
    LET column == Columns[filter.fk_column_id]
        now == IF isDateMonthFormat(column.date_format) THEN FirstOfMonth(Today) ELSE Today
        filterVal0 == filter.value
        sub == filter.comparison_sub_op
        res0 == IF Truthy(filterVal0)
                   THEN FromBool(IsSameDay(filterVal0, dataVal))
                   ELSE "undefined"
    IN  IF sub \in ValueSubOps /\ ~Truthy(filterVal0)
           THEN "return"
           ELSE IF Truthy(dataVal)
                   THEN DateCompare(filter.comparison_op, sub, dataVal,
                                    SubOpValue(sub, filterVal0, now), res0,
                                    FormatNow(DateFormat(client), column.uidt))
                   ELSE res0

\* a == b (loose equality) on cell values
LooseEq(a, b) ==
    CASE a.t = "null" \/ b.t = "null" -> a.t = b.t
      [] OTHER -> a = b

\* the branch for every other column type
PlainLeaf(filter, cell) ==
    LET op == filter.comparison_op
        val == IF filter.value.t = "num" /\ ~IsNaN(cell) THEN Num(ToNumber(cell)) ELSE cell
        numeric == ~IsNaN(cell) /\ ~IsNaN(filter.value)
    IN  CASE op = "eq" -> FromBool(LooseEq(val, filter.value))
          [] op = "neq" -> FromBool(~LooseEq(val, filter.value))
          [] op \in {"empty", "blank"} -> FromBool(cell.t = "null")
          [] op \in {"notempty", "notblank"} -> FromBool(cell.t # "null")
          [] op = "checked" -> FromBool(Truthy(cell))
          [] op = "notchecked" -> FromBool(~Truthy(cell))
          [] op = "null" -> FromBool(cell.t = "null")
          [] op = "notnull" -> FromBool(cell.t # "null")
          [] op = "lt" -> FromBool(numeric /\ ToNumber(cell) < ToNumber(filter.value))
          [] op \in {"lte", "le"} ->
                FromBool(numeric /\ ToNumber(cell) <= ToNumber(filter.value))
          [] op = "gt" -> FromBool(numeric /\ ToNumber(cell) > ToNumber(filter.value))
          [] op \in {"gte", "ge"} ->
                FromBool(numeric /\ ToNumber(cell) >= ToNumber(filter.value))
          [] OTHER -> "undefined"

\* a user object {id}, an array of user objects (by their ids), and a string
\* given as its pieces between commas
UserObj(id) == [t |-> "user", v |-> id]
UserArr(ids) == [t |-> "users", v |-> ids]
Csv(tokens) == [t |-> "str", v |-> tokens]

\* v.trim() compared as it stands
TrimNothing(token) == token

\* v.trim()
Trim(token) ==
    CASE token = " u3" -> "u3"
      [] token = "u2 " -> "u2"
      [] OTHER -> token

\* the branch for User, CreatedBy and LastModifiedBy columns; a filter value
\* that is neither a string nor null has no split method
UserLeaf(filter, cell) ==
    LET userIds == IF cell.t = "users" THEN { cell.v[i] : i \in 1..Len(cell.v) }
                   ELSE IF cell.t = "user" /\ cell.v # "" THEN {cell.v}
                   ELSE {}
        filterValues == IF filter.value.t = "str"
                           THEN { Trim(filter.value.v[i]) : i \in 1..Len(filter.value.v) }
                           ELSE {}
        op == filter.comparison_op
    IN  IF filter.value.t \notin {"str", "null"} THEN "throw"
        ELSE CASE op = "anyof" -> FromBool(\E id \in userIds : id \in filterValues)
               [] op = "nanyof" -> FromBool(~\E id \in userIds : id \in filterValues)
               [] op = "allof" -> FromBool(\A id \in filterValues : id \in userIds)
               [] op = "nallof" -> FromBool(~\A id \in filterValues : id \in userIds)
               [] op \in {"empty", "blank"} -> FromBool(Cardinality(userIds) = 0)
               [] op \in {"notempty", "notblank"} -> FromBool(Cardinality(userIds) > 0)
               [] OTHER -> "false"

\* the value `res` of a leaf filter against `data`: "throw" when data[field]
\* dereferences a missing record
LeafResult(filter, data, client) ==
    IF data = Null
       THEN "throw"
       ELSE LET column == Columns[filter.fk_column_id]
                cell == data[column.title]
            IN  IF column.uidt \in DateTypes /\ filter.comparison_op \notin EmptyOps
                   THEN DateLeaf(filter, cell, client)
                   ELSE IF column.uidt \in UserTypes
                           THEN UserLeaf(filter, cell)
                           ELSE PlainLeaf(filter, cell)

-----------------------------------------------------------------------------
(* validateCondition: the fold over the sibling list *)

\* Combine with the `not` case written `isValid && res`
CombineNotUnnegated(logical_op, isValid, res) ==
    CASE logical_op = "or" -> JsOr(isValid, ToBool(res))
      [] logical_op = "not" -> JsAnd(isValid, res)
      [] OTHER -> JsAnd(JsNullish(isValid, "true"), res)

\* `switch (filter.logical_op)`: the new value of isValid
Combine(logical_op, isValid, res) ==
    CASE logical_op = "or" -> JsOr(isValid, ToBool(res))
      [] logical_op = "not" -> JsAnd(isValid, JsNot(res))
      [] OTHER -> JsAnd(JsNullish(isValid, "true"), res)

RECURSIVE ValidateCondition(_, _, _)
RECURSIVE VcLoop(_, _, _, _, _)

\* the body of `for (const _filter of siblings)` from the i-th filter on
VcLoop(siblings, i, isValid, data, client) ==
    IF i > Len(siblings)
       THEN isValid
       ELSE LET filter == siblings[i]
                res == IF filter.is_group
                          THEN ValidateCondition(filter.children, data, client)
                          ELSE LeafResult(filter, data, client)
            IN  CASE res = "throw" -> "throw"
                  [] ~filter.is_group /\ res = "return" -> "undefined"
                  [] OTHER ->
                        VcLoop(siblings, i + 1,
                               Combine(filter.logical_op, isValid, res), data, client)

\* validateCondition(context, siblings, data, {client}): "true", "false", "null" or
\* "undefined", or "throw" when the evaluation raises a TypeError
ValidateCondition(siblings, data, client) ==
    IF Len(siblings) = 0 THEN "true" ELSE VcLoop(siblings, 1, "null", data, client)

-----------------------------------------------------------------------------
(* The inputs validateCondition is applied to *)

\* the leaf conditions of the filter trees: a number comparison, a relative date
\* comparison, and a relative date comparison that lacks its value (whose
\* logical_op is never read)
LeafPool ==
    UNION { { Leaf(lop, "Num", "eq", "", Num(1)),
              Leaf(lop, "Due", "eq", "today", Null) } : lop \in LogicalOps }
        \cup { Leaf("and", "Due", "eq", "daysAgo", Null) }

\* the nodes a tree is built from: a leaf or a group that has no child yet
NodePool == LeafPool \cup { Group(lop, <<>>) : lop \in LogicalOps }

RECURSIVE CountFilters(_)
RECURSIVE CountFrom(_, _)

CountFrom(siblings, i) ==
    IF i > Len(siblings)
       THEN 0
       ELSE 1 + CountFilters(siblings[i].children) + CountFrom(siblings, i + 1)

\* the number of nodes of a filter tree
CountFilters(siblings) == CountFrom(siblings, 1)

RECURSIVE OpenDepth(_)

\* how deep the chain of last groups goes: the lists a next filter can be added to
OpenDepth(siblings) ==
    IF Len(siblings) = 0 \/ ~siblings[Len(siblings)].is_group
       THEN 0
       ELSE 1 + OpenDepth(siblings[Len(siblings)].children)

RECURSIVE AppendAt(_, _, _)

\* the tree with f added as the last filter of the list d groups down
AppendAt(siblings, d, f) ==
    IF d = 0
       THEN Append(siblings, f)
       ELSE [siblings EXCEPT ![Len(siblings)].children = AppendAt(@, d - 1, f)]

\* the records the siblings are evaluated against
VcRecords == [Num : {Num(0), Num(1)}, Due : {Null, Day(Today), Day(Today - 1)}]

\* no invocation of invokeWebhook is under way
WhIdle ==
    /\ hook = <<>> /\ param = <<>> /\ storedFilters = <<>> /\ filterUpdates = 0
    /\ env = <<>> /\ pc = "idle" /\ notification = <<>> /\ filters = <<>>
    /\ newData = <<>> /\ filteredData = <<>> /\ idx = 0 /\ reqPayload = <<>>
    /\ hookLog = <<>> /\ checks = <<>> /\ constructed = <<>> /\ calls = <<>>
    /\ outcome = "Idle" /\ thrown = <<>> /\ caught = <<>> /\ dispatched = FALSE
    /\ insert = "none" /\ hookLogs = <<>>

InitVC ==
    /\ vcFilters = <<>>
    /\ vcData \in VcRecords
    /\ vcResult = "pending"
    /\ vcClient = SourceType
    /\ WhIdle /\ LkIdle /\ AggIdle /\ MwIdle /\ FhIdle

\* the caller puts one more filter into the tree it will pass
AddFilter ==
    /\ vcResult = "pending"
    /\ CountFilters(vcFilters) < MaxFilters
    /\ \E f \in NodePool, d \in 0..OpenDepth(vcFilters) :
            vcFilters' = AppendAt(vcFilters, d, f)
    /\ UNCHANGED <<vcData, vcResult, vcClient, whVars, lkVars, aggVars, mwVars, fhVars>>

CallValidateCondition ==
    /\ vcResult = "pending"
    /\ vcResult' = ValidateCondition(vcFilters, vcData, vcClient)
    /\ UNCHANGED <<vcFilters, vcData, vcClient, whVars, lkVars, aggVars, mwVars, fhVars>>

NextVC == AddFilter \/ CallValidateCondition

SpecVC == InitVC /\ [][NextVC]_vars

-----------------------------------------------------------------------------
(* validateCondition applied to one filter on a user column *)

\* the sequences over S of length lo to hi
SeqsOf(S, lo, hi) == UNION { [1..n -> S] : n \in lo..hi }

UserIds == {"u1", "u2", "u3"}

\* the pieces a filter value has between its commas
RawTokens == {"u1", "u2", " u3", "u2 ", ""}

\* what a user cell of a record holds
UserCells ==
    {Null, UserObj("")}
        \cup { UserObj(id) : id \in UserIds }
        \cup { UserArr(ids) : ids \in SeqsOf(UserIds, 0, MaxUsers) }

UserOps ==
    {"anyof", "nanyof", "allof", "nallof", "empty", "blank", "notempty", "notblank",
     "eq", "like"}

UserFilters ==
    { Leaf("", col, op, "", value) :
        col \in {"Owner", "Creator", "Editor"},
        op \in UserOps,
        value \in {Null} \cup { Csv(tokens) : tokens \in SeqsOf(RawTokens, 1, MaxTokens) } }

InitUser ==
    /\ vcFilters \in { <<f>> : f \in UserFilters }
    /\ vcData \in { [Num |-> Num(0), Due |-> Null, Owner |-> cell] : cell \in UserCells }
    /\ vcResult = "pending"
    /\ vcClient = SourceType
    /\ WhIdle /\ LkIdle /\ AggIdle /\ MwIdle /\ FhIdle

SpecUser == InitUser /\ [][CallValidateCondition]_vars

\* the comparison operators of the date branch
DateOps == {"eq", "neq", "gt", "lt", "lte", "gte", "isWithin"}

\* the sub-operations with the values a filter may carry for them
DateSubOps ==
    [sub \in {"", "today", "tomorrow", "yesterday", "oneWeekAgo", "oneWeekFromNow",
              "oneMonthAgo", "oneMonthFromNow", "pastWeek", "pastMonth", "pastYear",
              "nextWeek", "nextMonth", "nextYear"} |-> {Null}]
    @@ [sub \in {"daysAgo", "daysFromNow", "pastNumberOfDays", "nextNumberOfDays"} |->
            {Null, Num(2)}]
    @@ [sub \in {"exactDate"} |-> {Null, Day(Today), Day(Today + 2)}]

\* one condition on the date field, by one of its three columns
DateFilters ==
    { f \in { Leaf("and", col, op, sub, value) :
                col \in {"Due", "Month", "Seen"}, op \in DateOps,
                sub \in DOMAIN DateSubOps, value \in {Null, Num(2), Day(Today), Day(Today + 2)} } :
        f.value \in DateSubOps[f.comparison_sub_op] }

\* the days the record's date may be: around today and the first of the month,
\* and a week, a month and a year from them
DateCells ==
    {Null} \cup
    { Day(from + sign * offset) :
        from \in {Today, FirstOfMonth(Today)}, sign \in {0 - 1, 1},
        offset \in {0, 1, 2, 3, 7, 8, MonthLen, 12 * MonthLen} }

\* one call with a date condition, alone or in a group, under some client
InitDate ==
    /\ vcFilters \in { <<f>> : f \in DateFilters } \cup { <<Group("and", <<f>>)>> : f \in DateFilters }
    /\ vcData \in { [Num |-> Num(0), Due |-> cell] : cell \in DateCells }
    /\ vcResult = "pending"
    /\ vcClient \in Clients
    /\ WhIdle /\ LkIdle /\ AggIdle /\ MwIdle /\ FhIdle

SpecDate == InitDate /\ [][CallValidateCondition]_vars

-----------------------------------------------------------------------------
(* Properties of validateCondition *)

\* the result of one sibling: a group's verdict, a leaf's comparison (undefined
\* when the leaf ends the call early)
SiblingResult(filter, data) ==
    IF filter.is_group
       THEN ValidateCondition(filter.children, data, vcClient)
       ELSE IF LeafResult(filter, data, vcClient) = "return"
               THEN "undefined"
               ELSE LeafResult(filter, data, vcClient)

\* a leaf of the list itself is a date comparison that lacks the value its
\* sub-operation needs
LacksValue(siblings, data) ==
    \E i \in 1..Len(siblings) :
        ~siblings[i].is_group /\ LeafResult(siblings[i], data, vcClient) = "return"

RECURSIVE StatedFold(_, _, _)

\* the left fold over the first n siblings: or: acc || result
StatedFold(siblings, data, n) ==
    IF n = 0
       THEN "null"
       ELSE LET acc == StatedFold(siblings, data, n - 1)
                result == SiblingResult(siblings[n], data)
                op == siblings[n].logical_op
            IN  IF op = "or" THEN JsOr(acc, result)
                ELSE IF op = "not" THEN JsAnd(acc, JsNot(result))
                ELSE JsAnd(JsNullish(acc, "true"), result)

RECURSIVE CoercingFold(_, _, _)

\* the left fold over the first n siblings: or: acc || !!result
CoercingFold(siblings, data, n) ==
    IF n = 0
       THEN "null"
       ELSE LET acc == CoercingFold(siblings, data, n - 1)
                result == SiblingResult(siblings[n], data)
                op == siblings[n].logical_op
            IN  IF op = "or" THEN JsOr(acc, ToBool(result))
                ELSE IF op = "not" THEN JsAnd(acc, JsNot(result))
                ELSE JsAnd(JsNullish(acc, "true"), result)

\* the sibling list [and: true, or: false, not: false]
IsAndOrNotExample(siblings, data) ==
    /\ Len(siblings) = 3
    /\ siblings[1].logical_op = "and" /\ SiblingResult(siblings[1], data) = "true"
    /\ siblings[2].logical_op = "or" /\ SiblingResult(siblings[2], data) = "false"
    /\ siblings[3].logical_op = "not" /\ SiblingResult(siblings[3], data) = "false"

\* C1 as stated: validateCondition over any sibling list equals the left fold
\* that starts at null and combines by or: acc || result, not: acc && !result,
\* and/unset: (acc ?? true) && result.
C1_EqualsStatedFold ==
    vcResult # "pending" =>
        vcResult = StatedFold(vcFilters, vcData, Len(vcFilters))

\* C1 amended: an empty list yields true; a non-empty list none of whose own
\* leaves lacks a required date value yields the left fold that starts at null
\* and combines by or: acc || !!result, not: acc && !result, and/unset:
\* (acc ?? true) && result; [and: true, or: false, not: false] yields true.
C1_EqualsCoercingFold ==
    vcResult # "pending" =>
        /\ Len(vcFilters) = 0 => vcResult = "true"
        /\ Len(vcFilters) > 0 /\ ~LacksValue(vcFilters, vcData) =>
                vcResult = CoercingFold(vcFilters, vcData, Len(vcFilters))
        /\ IsAndOrNotExample(vcFilters, vcData) => vcResult = "true"

\* the call on [and: true, or: false, not: false] has returned
C1_Witness ==
    /\ vcResult # "pending"
    /\ IsAndOrNotExample(vcFilters, vcData)
    /\ \A i \in 1..3 : ~vcFilters[i].is_group

RECURSIVE OnlyAnd(_)

\* every filter of the tree, at any depth, has logical_op `and` or unset
OnlyAnd(siblings) ==
    \A i \in 1..Len(siblings) :
        /\ siblings[i].logical_op \in {"", "and"}
        /\ OnlyAnd(siblings[i].children)

RECURSIVE EveryLeafTruthy(_, _)

\* every leaf of the tree, at any depth, has a truthy result
EveryLeafTruthy(siblings, data) ==
    \A i \in 1..Len(siblings) :
        IF siblings[i].is_group
           THEN EveryLeafTruthy(siblings[i].children, data)
           ELSE LeafResult(siblings[i], data, vcClient) = "true"

\* C2: for a tree whose siblings all have logical_op `and` or unset, the verdict
\* is truthy exactly when every leaf result is truthy.
C2_AndTreeIsConjunction ==
    vcResult # "pending" /\ OnlyAnd(vcFilters) =>
        (IsTrue(vcResult) <=> EveryLeafTruthy(vcFilters, vcData))

-----------------------------------------------------------------------------
(* invokeWebhook: values *)

\* the rows of the table the hook is attached to
WhRows == [Num : {Num(0), Num(1)}, Due : {Null}]

\* the filter lists a hook has stored or is tested with
HookFilterPool ==
    { <<>>,
      <<Leaf("", "Num", "eq", "", Num(1))>> }

\* a JavaScript value that is a single row (or null) or an array of rows
Single(row) == [isArray |-> FALSE, row |-> row, rows |-> <<>>]
Batch(rows) == [isArray |-> TRUE, row |-> Null, rows |-> rows]

\* the arrays of at most n rows
RECURSIVE RowSeqs(_)
RowSeqs(n) ==
    IF n = 0
       THEN {<<>>}
       ELSE RowSeqs(n - 1)
                \cup { Append(rows, r) : rows \in { q \in RowSeqs(n - 1) : Len(q) = n - 1 },
                                         r \in WhRows }

\* truthiness of newData / prevData: null is falsy, a row and an array are truthy
Present(d) == d.isArray \/ d.row # Null

\* templates of the notification payload
MalformedTemplates == {"{{#if data.Num}"}
ReferencingTemplates == {"https://hooks.example.com/{{data.Num}}", "Row {{data.Num}}"}

\* the string a template stands for once rendered against `data`
Rendered(text, data) == [text |-> text, data |-> data]

\* Handlebars raising an error
Threw == [text |-> "throw", data |-> Null]

\* Handlebars.compile(template, {noEscape: true})({data, event: data})
Compiled(template, data) ==
    IF template \in MalformedTemplates THEN Threw
    ELSE IF template \in ReferencingTemplates THEN Rendered(template, data)
    ELSE Rendered(template, Null)

\* parseBody without its try/catch
parseBodyUncaught(template, data) ==
    IF template = "" THEN Rendered(template, Null) ELSE Compiled(template, data)

\* parseBody(template, data): an empty template and a template that fails to
\* compile come back as they are
parseBody(template, data) ==
    IF template = "" THEN Rendered(template, Null)
    ELSE IF Compiled(template, data) = Threw THEN Rendered(template, Null)
    ELSE Compiled(template, data)

Payload(path, to, subject, body) ==
    [path |-> path, to |-> to, subject |-> subject, body |-> body, headers |-> <<>>]

\* hook.notification: an object {type, payload}, a string that is not JSON, or null
NotificationPool ==
    { [form |-> "object", type |-> "URL",
       payload |-> Payload("https://hooks.example.com/{{data.Num}}", "", "", "Row {{data.Num}}")],
      [form |-> "object", type |-> "Email",
       payload |-> Payload("", "ops@example.com", "Row {{data.Num}}", "{{#if data.Num}")],
      [form |-> "object", type |-> "Slack",
       payload |-> Payload("", "", "", "Row {{data.Num}}")],
      [form |-> "string", type |-> "", payload |-> Payload("", "", "", "")],
      [form |-> "null", type |-> "", payload |-> Payload("", "", "", "")] }

\* the hooks: version and operation are varied for URL hooks, the only ones
\* whose payload is built by constructWebHookData, and the operation for v2
\* hooks only, v1 hooks sending newData as it is
HookPool ==
    { h \in { [id |-> "hk1", condition |-> c, notification |-> n, version |-> v,
               event |-> "after", operation |-> o] :
                c \in BOOLEAN, n \in NotificationPool,
                v \in {"v1", "v2"}, o \in {"insert", "bulkInsert"} } :
        /\ h.notification.type # "URL" => h.version = "v2"
        /\ h.operation = "bulkInsert" => h.version = "v2" /\ h.notification.type = "URL" }

\* the local `notification`: undefined until parsed, then null or the object
Undefined == [form |-> "undefined", type |-> "", payload |-> Payload("", "", "", "")]

\* notification?.type
TypeOf(n) == IF n.form = "object" THEN n.type ELSE ""

\* an error object: its class, e.isAxiosError, whether e.message includes
\* 'private IP address', and e.response ("none", "plain", or "privateIp" when
\* e.response.data.message includes 'private IP address')
Err(name, axios, msg, resp) ==
    [name |-> name, isAxiosError |-> axios, privateIpMessage |-> msg, response |-> resp]

NoErr == Err("none", FALSE, FALSE, "none")

\* what invokeWebhook throws: nothing, the caught error, the rewritten
\* private-network error, or the TypeError raised inside the catch block
NoThrow == [kind |-> "none", e |-> NoErr, advice |-> FALSE]
Rethrow(e) == [kind |-> "caught", e |-> e, advice |-> FALSE]
PrivateNetworkError(advice) ==
    [kind |-> "privateNetwork", e |-> Err("Error", FALSE, FALSE, "none"), advice |-> advice]
CatchTypeError ==
    [kind |-> "insideCatch", e |-> Err("TypeError", FALSE, FALSE, "none"), advice |-> FALSE]

\* the local `filters`: undefined until fetched
NoFilters == [set |-> FALSE, list |-> <<>>]
SomeFilters(list) == [set |-> TRUE, list |-> list]

\* the local `hookLog`: undefined, or the record built on success or on failure
NoLog == [kind |-> "none", type |-> "", conditions |-> NoFilters, e |-> NoErr]
SuccessLog(type, conds) == [kind |-> "success", type |-> type, conditions |-> conds, e |-> NoErr]
ErrorLog(type, conds, e) == [kind |-> "error", type |-> type, conditions |-> conds, e |-> e]

\* process.env and the edition, before the invocation has read them
NotRead == "not read"
Levels == {"", "ERROR", "ALL"}
LocalHooksValues == {"", "true", "false"}
Flags == {"true", "false"}

-----------------------------------------------------------------------------
(* invokeWebhook: payload construction *)

\* a single record passed on without the one-element array around it
AsArrayUnwrapped(d) == d.rows

\* Array.isArray(d) ? d : [d]
AsArray(d) == IF d.isArray THEN d.rows ELSE <<d.row>>

\* rows_inserted as the number of calls rather than of rows
RowsInsertedAsOne(new) == IF Present(new) THEN 1 ELSE 0

\* Array.isArray(newData) ? newData.length : newData ? 1 : 0
RowsInserted(new) ==
    IF new.isArray THEN Len(new.rows) ELSE IF Present(new) THEN 1 ELSE 0

\* constructWebHookData(hook, model, view, prevData, newData): the v2 envelope
\* (an absent key has its has_ flag FALSE), or newData itself (raw) for v1
constructWebHookData(h, prev, new) ==
    IF h.version = "v2"
       THEN [envelope |-> TRUE,
             type |-> <<"records", h.event, h.operation>>,
             id |-> "uuid",
             table_id |-> "md1",
             table_name |-> "Tasks",
             has_previous_rows |-> Present(prev),
             previous_rows |-> IF Present(prev) THEN AsArray(prev) ELSE <<>>,
             has_rows |-> h.operation # "bulkInsert" /\ Present(new),
             rows |-> IF h.operation # "bulkInsert" /\ Present(new)
                         THEN AsArray(new) ELSE <<>>,
             has_rows_inserted |-> h.operation = "bulkInsert",
             rows_inserted |-> IF h.operation # "bulkInsert" THEN 0 ELSE RowsInserted(new),
             raw |-> Single(Null)]
       ELSE [envelope |-> FALSE, type |-> <<>>, id |-> "", table_id |-> "",
             table_name |-> "", has_previous_rows |-> FALSE, previous_rows |-> <<>>,
             has_rows |-> FALSE, rows |-> <<>>, has_rows_inserted |-> FALSE,
             rows_inserted |-> 0, raw |-> new]

\* a request handed to a delivery channel; the fields a channel does not use are blank
Blank == Rendered("", Null)
NoRequest ==
    [url |-> Blank, data |-> Blank, headers |-> <<>>, withCredentials |-> FALSE,
     agents |-> FALSE, agentUrl |-> Blank, timeout |-> 0,
     to |-> Blank, subject |-> Blank, html |-> Blank, body |-> Blank]

\* process.env.NC_ALLOW_LOCAL_HOOKS !== 'true' with any value but exactly unset
\* taken as permission
UseAgentsOnlyIfUnset(allow) == allow = ""

\* process.env.NC_ALLOW_LOCAL_HOOKS !== 'true': the request-filtering agents are attached
UseAgents(allow) == allow # "true"

\* the header list of _apiMeta after populateAxiosReq has looked for an enabled
\* content-type header (the list is the hook's own when the notification is an object)
WithContentType(headers) ==
    IF \E k \in 1..Len(headers) : headers[k] = "Content-Type"
       THEN headers
       ELSE Append(headers, "Content-Type")

\* populateAxiosReq: the request for axios
populateAxiosReq(apiMeta, h, prev, new, allow) ==
    LET webhookData == constructWebHookData(h, prev, new)
        url == parseBody(apiMeta.path, webhookData)
    IN  [NoRequest EXCEPT
            !.url = url,
            !.data = parseBody(apiMeta.body, webhookData),
            !.headers = WithContentType(apiMeta.headers),
            !.withCredentials = TRUE,
            !.agents = UseAgents(allow),
            !.agentUrl = IF UseAgents(allow) THEN url ELSE Blank,
            !.timeout = 30 * 1000]

\* the payload for mailSend
EmailRequest(p, new) ==
    [NoRequest EXCEPT !.to = parseBody(p.to, new),
                      !.subject = parseBody(p.subject, new),
                      !.html = parseBody(p.body, new)]

\* the arguments of a plugin's sendMessage
PluginRequest(p, new) == [NoRequest EXCEPT !.body = parseBody(p.body, new)]

-----------------------------------------------------------------------------
(* invokeWebhook: the log guards and the error surfaced *)

\* the success guard with the edition left out
LogsSuccessOnlyAll(level, ee) == level = "ALL"

\* NC_AUTOMATION_LOG_LEVEL === 'ALL' || (isEE && !NC_AUTOMATION_LOG_LEVEL)
LogsSuccess(level, ee) == level = "ALL" \/ (ee = "true" /\ level = "")

\* ['ERROR', 'ALL'].includes(NC_AUTOMATION_LOG_LEVEL) || isEE
LogsFailure(level, ee) == level \in {"ERROR", "ALL"} \/ ee = "true"

\* e.isAxiosError and the message of e or of e.response.data includes
\* 'private IP address'
IsPrivateIpError(e) ==
    e.isAxiosError /\ (e.privateIpMessage \/ e.response = "privateIp")

\* the rethrow with the advice given in every edition
SurfacedWithAdvice(e, ee, onPrem) ==
    IF IsPrivateIpError(e) THEN PrivateNetworkError(TRUE) ELSE Rethrow(e)

\* the body of `if (throwErrorOnFailure)`: the error thrown to the caller
Surfaced(e, ee, onPrem) ==
    IF IsPrivateIpError(e)
       THEN PrivateNetworkError(ee # "true" \/ onPrem = "true")
       ELSE Rethrow(e)

\* what the catch block throws for the caught error e
Thrown(e, ee, onPrem, throwErrorOnFailure) ==
    IF throwErrorOnFailure THEN Surfaced(e, ee, onPrem) ELSE NoThrow

-----------------------------------------------------------------------------
(* invokeWebhook: the invocation *)

\* validateCondition is not under way
VcIdle == vcFilters = <<>> /\ vcData = Null /\ vcResult = "idle" /\ vcClient = "none"

\* the parameters of an invocation; a bulk call passes no previous rows
ParamPool ==
    { p \in [prevData : { Single(r) : r \in WhRows \cup {Null} },
             newData : { Single(r) : r \in WhRows \cup {Null} }
                            \cup { Batch(rows) : rows \in RowSeqs(MaxBatch) },
             testFilters : {NoFilters, SomeFilters(<<Leaf("", "Num", "eq", "", Num(0))>>)},
             throwErrorOnFailure : BOOLEAN,
             testHook : BOOLEAN] :
        p.newData.isArray => p.prevData = Single(Null) }

Init ==
    /\ VcIdle /\ LkIdle /\ AggIdle /\ MwIdle /\ FhIdle
    /\ hook \in HookPool
    /\ param \in ParamPool
    /\ storedFilters \in IF param.testFilters.set THEN {<<>>} ELSE HookFilterPool
    /\ filterUpdates = 0
    /\ env = [NC_ALLOW_LOCAL_HOOKS |-> NotRead, NC_AUTOMATION_LOG_LEVEL |-> NotRead,
              isEE |-> NotRead, isOnPrem |-> NotRead]
    /\ pc = "start"
    /\ notification = Undefined
    /\ filters = NoFilters
    /\ newData = param.newData
    /\ filteredData = <<>>
    /\ idx = 0
    /\ reqPayload = NoRequest
    /\ hookLog = NoLog
    /\ checks = <<>>
    /\ constructed = <<>>
    /\ calls = <<>>
    /\ outcome = "Running"
    /\ thrown = NoThrow
    /\ caught = NoErr
    /\ dispatched = FALSE
    /\ insert = "none"
    /\ hookLogs = <<>>

\* testFilters || (await hook.getFilters(context))
Fetched == IF param.testFilters.set THEN param.testFilters.list ELSE storedFilters

\* the insert started with control still where it was, the awaited call pending
FinallyInFlight(out, log, err) ==
    /\ outcome' = out
    /\ hookLog' = log
    /\ thrown' = err
    /\ insert' = IF log.kind = "none" THEN "none" ELSE "inflight"
    /\ pc' = pc

\* a failed invocation going back to the delivery switch
FinallyRetrying(out, log, err) ==
    /\ outcome' = out
    /\ hookLog' = log
    /\ thrown' = err
    /\ insert' = IF log.kind = "none" THEN "none" ELSE "inflight"
    /\ pc' = IF out = "Failed" /\ calls # <<>> THEN "deliver" ELSE "done"

\* `finally`: HookLog.insert is started when a log record was built, and
\* invokeWebhook completes with `out`
Finally(out, log, err) ==
    /\ outcome' = out
    /\ hookLog' = log
    /\ thrown' = err
    /\ insert' = IF log.kind = "none" THEN "none" ELSE "inflight"
    /\ pc' = "done"

\* `return` inside the try block
Skip == Finally("Skipped", NoLog, NoThrow) /\ env' = env /\ caught' = caught

\* the code after a delivery that did not throw, through `finally`
Succeed(type, conds) ==
    \E level \in Levels, ee \in Flags :
        /\ env' = [env EXCEPT !.NC_AUTOMATION_LOG_LEVEL = level, !.isEE = ee]
        /\ caught' = caught
        /\ Finally("Delivered",
                   IF LogsSuccess(level, ee) THEN SuccessLog(type, conds) ELSE NoLog,
                   NoThrow)

\* `!isEE || isOnPrem` reads isOnPrem only when the private-network error is
\* built in an EE deployment
OnPremRead(e, ee, throwErrorOnFailure) ==
    IF throwErrorOnFailure /\ IsPrivateIpError(e) /\ ee = "true" THEN Flags ELSE {NotRead}

\* the catch block for the error e, through `finally`; when a log record is to
\* be built and `notification` is null or undefined, reading notification.type
\* raises a TypeError that leaves the catch block
Caught(e, notif, conds) ==
    /\ caught' = e
    /\ \E level \in Levels, ee \in Flags :
        IF LogsFailure(level, ee) /\ notif.form # "object"
           THEN /\ env' = [env EXCEPT !.NC_AUTOMATION_LOG_LEVEL = level, !.isEE = ee]
                /\ Finally("Failed", NoLog, CatchTypeError)
           ELSE \E onPrem \in OnPremRead(e, ee, param.throwErrorOnFailure) :
                /\ env' = [env EXCEPT !.NC_AUTOMATION_LOG_LEVEL = level, !.isEE = ee,
                                      !.isOnPrem = onPrem]
                /\ Finally("Failed",
                           IF LogsFailure(level, ee)
                              THEN ErrorLog(notif.type, conds, e) ELSE NoLog,
                           Thrown(e, ee, onPrem, param.throwErrorOnFailure))

TypeError == Err("TypeError", FALSE, FALSE, "none")

\* a call of validateCondition, as recorded in `checks`
Check(on, list, row, result) == [on |-> on, filters |-> list, data |-> row, result |-> result]

\* the bulk gate closed to URL hooks instead of the others
BulkGateForUrl(isBulk, type) == isBulk /\ type = "URL"

\* isBulkOperation && notification?.type !== 'URL'
BulkGate(isBulk, type) == isBulk /\ type # "URL"

\* the condition gate that ignores testHook
ConditionGateIgnoringTest(condition, isTest) == condition

\* hook.condition && !testHook
ConditionGate(condition, isTest) == condition /\ ~isTest

\* from the entry to the first await of the condition gate: the notification is
\* parsed, the bulk gate is applied
Begin ==
    /\ pc = "start"
    /\ IF hook.notification.form = "string"
          THEN /\ Caught(Err("SyntaxError", FALSE, FALSE, "none"), Undefined, NoFilters)
               /\ UNCHANGED notification
          ELSE /\ notification' = hook.notification
               /\ IF BulkGate(newData.isArray, TypeOf(hook.notification))
                     THEN Skip
                     ELSE /\ pc' = IF ConditionGate(hook.condition, param.testHook)
                                      THEN "getFilters" ELSE "deliver"
                          /\ UNCHANGED <<outcome, hookLog, thrown, caught, insert, env>>
    /\ UNCHANGED <<vcVars, fhVars, lkVars, aggVars, mwVars, dispatched, hook, param, storedFilters, filterUpdates, filters, newData,
                   filteredData, idx, reqPayload, checks, constructed, calls, hookLogs>>

\* the gate without the prevData check
PrevCheckedNever(prev, list) == FALSE

\* prevData && filters.length: the prevData check is made
PrevChecked(prev, list) == Present(prev) /\ Len(list) > 0

\* `filters` is fetched; a single record's prevData is checked against it
GetFilters ==
    /\ pc = "getFilters"
    /\ filters' = SomeFilters(Fetched)
    /\ IF newData.isArray
          THEN /\ pc' = "batch"
               /\ idx' = 1
               /\ filteredData' = <<>>
               /\ UNCHANGED <<checks, outcome, hookLog, thrown, caught, insert, env>>
          ELSE /\ UNCHANGED <<idx, filteredData>>
               /\ IF PrevChecked(param.prevData, Fetched)
                     THEN LET res == ValidateCondition(Fetched, param.prevData.row, SourceType)
                          IN  /\ checks' = Append(checks,
                                      Check("prevData", Fetched, param.prevData.row, res))
                              /\ IF res = "throw"
                                    THEN Caught(TypeError, notification, SomeFilters(Fetched))
                                    ELSE IF IsTrue(res)
                                            THEN Skip
                                            ELSE /\ pc' = "new"
                                                 /\ UNCHANGED <<outcome, hookLog, thrown, caught,
                                                                insert, env>>
                     ELSE /\ pc' = "new"
                          /\ UNCHANGED <<checks, outcome, hookLog, thrown, caught, insert, env>>
    /\ UNCHANGED <<vcVars, fhVars, lkVars, aggVars, mwVars, dispatched, hook, param, storedFilters, filterUpdates, notification,
                   newData, reqPayload, constructed, calls, hookLogs>>

\* the filters are fetched again and the new record is checked against them
CheckNew ==
    /\ pc = "new"
    /\ LET res == ValidateCondition(Fetched, newData.row, SourceType)
       IN  /\ checks' = Append(checks, Check("newData", Fetched, newData.row, res))
           /\ IF res = "throw"
                 THEN Caught(TypeError, notification, filters)
                 ELSE IF ~IsTrue(res)
                         THEN Skip
                         ELSE /\ pc' = "deliver"
                              /\ UNCHANGED <<outcome, hookLog, thrown, caught, insert, env>>
    /\ UNCHANGED <<vcVars, fhVars, lkVars, aggVars, mwVars, dispatched, hook, param, storedFilters, filterUpdates, notification,
                   filters, newData, filteredData, idx, reqPayload, constructed, calls,
                   hookLogs>>

\* filteredData with the records that fail kept and those that match dropped
PushedIfNot(data, row, res) == IF IsTrue(res) THEN data ELSE Append(data, row)

\* if (await validateCondition(...)) filteredData.push(data)
Pushed(data, row, res) == IF IsTrue(res) THEN Append(data, row) ELSE data

\* one turn of the batch loop (the filters are fetched again for each record),
\* or the code after the loop
BatchItem ==
    /\ pc = "batch"
    /\ IF idx <= Len(newData.rows)
          THEN LET row == newData.rows[idx]
                   res == ValidateCondition(Fetched, row, SourceType)
               IN  /\ checks' = Append(checks, Check("newData", Fetched, row, res))
                   /\ IF res = "throw"
                         THEN /\ Caught(TypeError, notification, filters)
                              /\ UNCHANGED <<filteredData, idx, newData>>
                         ELSE /\ filteredData' = Pushed(filteredData, row, res)
                              /\ idx' = idx + 1
                              /\ UNCHANGED <<pc, newData, outcome, hookLog, thrown, caught,
                                             insert, env>>
          ELSE /\ UNCHANGED <<checks, filteredData, idx>>
               /\ IF Len(filteredData) = 0
                     THEN Skip /\ UNCHANGED newData
                     ELSE /\ newData' = Batch(filteredData)
                          /\ pc' = "deliver"
                          /\ UNCHANGED <<outcome, hookLog, thrown, caught, insert, env>>
    /\ UNCHANGED <<vcVars, fhVars, lkVars, aggVars, mwVars, dispatched, hook, param, storedFilters, filterUpdates, notification,
                   filters, reqPayload, constructed, calls, hookLogs>>

\* a delivery call, as recorded in `calls`
Call(channel, request) == [channel |-> channel, request |-> request]

\* `switch (notification?.type)` up to the await of the delivery call
Deliver ==
    /\ pc = "deliver"
    /\ IF notification.form # "object"
          THEN /\ Caught(TypeError, notification, filters)
               /\ UNCHANGED <<hook, notification, reqPayload, constructed, calls>>
          ELSE IF notification.type = "Email"
          THEN /\ UNCHANGED <<hook, notification, reqPayload, constructed>>
               /\ \E adapter \in BOOLEAN :
                    IF adapter
                       THEN /\ calls' = Append(calls,
                                   Call("Email", EmailRequest(notification.payload, newData)))
                            /\ pc' = "awaiting"
                            /\ UNCHANGED <<outcome, hookLog, thrown, caught, insert, env>>
                       ELSE /\ Succeed("Email", filters)
                            /\ UNCHANGED calls
          ELSE IF notification.type = "URL"
          THEN \E allow \in LocalHooksValues :
                 LET req == populateAxiosReq(notification.payload, hook, param.prevData,
                                             newData, allow)
                 IN  /\ env' = [env EXCEPT !.NC_ALLOW_LOCAL_HOOKS = allow]
                     /\ hook' = [hook EXCEPT !.notification.payload.headers =
                                                WithContentType(@)]
                     /\ notification' = hook'.notification
                     /\ constructed' = Append(constructed,
                            [prevData |-> param.prevData, newData |-> newData])
                     /\ reqPayload' = req
                     /\ calls' = Append(calls, Call("URL", req))
                     /\ pc' = "awaiting"
                     /\ UNCHANGED <<outcome, hookLog, thrown, caught, insert>>
          ELSE /\ UNCHANGED <<hook, notification, reqPayload, constructed>>
               /\ \E adapter \in BOOLEAN :
                    IF adapter
                       THEN /\ calls' = Append(calls,
                                   Call(notification.type,
                                        PluginRequest(notification.payload, newData)))
                            /\ pc' = "awaiting"
                            /\ UNCHANGED <<outcome, hookLog, thrown, caught, insert, env>>
                       ELSE /\ Caught(TypeError, notification, filters)
                            /\ UNCHANGED calls
    /\ dispatched' = TRUE
    /\ UNCHANGED <<vcVars, fhVars, lkVars, aggVars, mwVars, param, storedFilters, filterUpdates, filters, newData,
                   filteredData, idx, checks, hookLogs>>

\* the error of a request the filtering agent refused because the target
\* resolves to a private address
AgentRefusal == Err("AxiosError: private IP", TRUE, TRUE, "none")

\* how a delivery call can end: NoErr when it resolves, else the error it
\* rejects with. Only a request that carries the filtering agents can be
\* refused by them.
Endings(call) ==
    IF call.channel = "URL"
       THEN { NoErr,
              Err("AxiosError", TRUE, FALSE, "none"),
              Err("AxiosError", TRUE, FALSE, "plain"),
              Err("AxiosError", TRUE, FALSE, "privateIp") }
                \cup (IF call.request.agents THEN {AgentRefusal} ELSE {})
       ELSE IF call.channel = "Email"
               THEN { NoErr, Err("Error", FALSE, FALSE, "none") }
               ELSE { NoErr, Err("AxiosError", TRUE, FALSE, "plain"),
                      Err("Error", FALSE, TRUE, "none") }

\* the delivery call settles; the rest of invokeWebhook runs without suspending
Settle ==
    /\ pc = "awaiting"
    /\ \E e \in Endings(calls[Len(calls)]) :
            IF e = NoErr
               THEN Succeed(notification.type, filters)
               ELSE Caught(e, notification, filters)
    /\ UNCHANGED <<vcVars, fhVars, lkVars, aggVars, mwVars, dispatched, hook, param, storedFilters, filterUpdates, notification,
                   filters, newData, filteredData, idx, reqPayload, checks, constructed,
                   calls, hookLogs>>

\* the promise of HookLog.insert resolves: the record is in the store
InsertResolves ==
    /\ insert = "inflight"
    /\ insert' = "resolved"
    /\ hookLogs' = Append(hookLogs, [log |-> hookLog, test_call |-> param.testHook])
    /\ UNCHANGED <<vcVars, fhVars, lkVars, aggVars, mwVars, dispatched, hook, param, storedFilters, filterUpdates, env, pc,
                   notification, filters, newData, filteredData, idx, reqPayload, hookLog,
                   checks, constructed, calls, outcome, thrown, caught>>

\* the rejection of HookLog.insert reaching the caller as a failure
InsertRejectsLoudly ==
    /\ insert = "inflight"
    /\ insert' = "rejected"
    /\ outcome' = "Failed"
    /\ thrown' = Rethrow(Err("Error", FALSE, FALSE, "none"))
    /\ UNCHANGED <<vcVars, fhVars, lkVars, aggVars, mwVars, dispatched, hook, param, storedFilters, filterUpdates, env, pc,
                   notification, filters, newData, filteredData, idx, reqPayload, hookLog,
                   checks, constructed, calls, caught, hookLogs>>

\* the promise of HookLog.insert rejects: `.catch` logs the error
InsertRejects ==
    /\ insert = "inflight"
    /\ insert' = "rejected"
    /\ UNCHANGED <<vcVars, fhVars, lkVars, aggVars, mwVars, dispatched, hook, param, storedFilters, filterUpdates, env, pc,
                   notification, filters, newData, filteredData, idx, reqPayload, hookLog,
                   checks, constructed, calls, outcome, thrown, caught, hookLogs>>

\* another request changes the hook's stored filters while the invocation is
\* suspended with a fetch of the filters still ahead
UpdateFilters ==
    /\ pc \in {"getFilters", "new", "batch"}
    /\ filterUpdates < MaxFilterUpdates
    /\ \E list \in HookFilterPool \ {storedFilters} : storedFilters' = list
    /\ filterUpdates' = filterUpdates + 1
    /\ UNCHANGED <<vcVars, fhVars, lkVars, aggVars, mwVars, dispatched, hook, param, env, pc, notification, filters, newData,
                   filteredData, idx, reqPayload, hookLog, checks, constructed, calls,
                   outcome, thrown, caught, insert, hookLogs>>

Next ==
    \/ Begin
    \/ GetFilters
    \/ CheckNew
    \/ BatchItem
    \/ Deliver
    \/ Settle
    \/ InsertResolves
    \/ InsertRejects
    \/ UpdateFilters

Spec == Init /\ [][Next]_vars

\* the steps of the invocation itself: each runs as soon as the promise it
\* awaits has settled
Advance == Begin \/ GetFilters \/ CheckNew \/ BatchItem \/ Deliver \/ Settle

\* every awaited promise settles (the HTTP request has a timeout of 30 s) and
\* the event loop then runs the continuation
SpecLive == Spec /\ WF_vars(Advance)

-----------------------------------------------------------------------------
(* Properties of invokeWebhook: the gates *)

\* a single-record invocation whose condition gate is in force
SingleGated == ~param.newData.isArray /\ hook.condition /\ ~param.testHook

\* the last validateCondition call made
LastCheck == checks[Len(checks)]

\* prevData is present, the list is non-empty and prevData satisfies it
PrevSatisfied(list) ==
    /\ Present(param.prevData)
    /\ Len(list) > 0
    /\ IsTrue(ValidateCondition(list, param.prevData.row, SourceType))

\* the last check turned the invocation away: prevData matched, or the new
\* record did not
Rejected ==
    /\ checks # <<>>
    /\ \/ LastCheck.on = "prevData" /\ IsTrue(LastCheck.result)
       \/ LastCheck.on = "newData" /\ LastCheck.result \notin {"true", "throw"}

\* C3: in a single-record invocation with hook.condition set and testHook
\* false, the delivery switch is entered only if the new record satisfied the
\* filters (as fetched for its check) and prevData, when present with a
\* non-empty filter list, did not satisfy them; a prevData check is the first
\* check and the newData check follows it; a check that turns the invocation
\* away ends it as Skipped with no delivery.
C3_SingleRecordGate ==
    SingleGated =>
        /\ dispatched =>
                /\ checks # <<>>
                /\ LastCheck.on = "newData"
                /\ LastCheck.data = param.newData.row
                /\ LastCheck.result = ValidateCondition(LastCheck.filters, param.newData.row, SourceType)
                /\ IsTrue(LastCheck.result)
                /\ filters.set
                /\ ~PrevSatisfied(filters.list)
        /\ Len(checks) <= 2
        /\ \A i \in 1..Len(checks) :
                /\ checks[i].on = "prevData" => i = 1 /\ checks[i].data = param.prevData.row
                /\ i = 2 => checks[1].on = "prevData" /\ checks[2].on = "newData"
        /\ Rejected =>
                /\ pc = "done"
                /\ outcome = "Skipped"
                /\ ~dispatched
                /\ calls = <<>>
                /\ thrown = NoThrow

\* prevData was checked and did not match, the new record was checked and
\* matched, and the delivery switch was entered
C3_Witness ==
    /\ SingleGated
    /\ dispatched
    /\ Len(checks) = 2
    /\ checks[1].on = "prevData" /\ ~IsTrue(checks[1].result)
    /\ checks[2].on = "newData" /\ IsTrue(checks[2].result)

\* newData is a batch and the parsed notification's type is not URL
BulkGated ==
    /\ param.newData.isArray
    /\ hook.notification.form # "string"
    /\ TypeOf(hook.notification) # "URL"

\* C4: when newData is a batch and the hook's notification type is not URL,
\* the invocation ends as Skipped at its first step: no filter is fetched or
\* evaluated, no delivery channel is called, no log record is built or
\* inserted, nothing is thrown.
C4_BulkGateSkips ==
    BulkGated /\ pc # "start" =>
        /\ pc = "done"
        /\ outcome = "Skipped"
        /\ filters = NoFilters
        /\ checks = <<>>
        /\ ~dispatched
        /\ constructed = <<>>
        /\ calls = <<>>
        /\ hookLog = NoLog
        /\ insert = "none"
        /\ hookLogs = <<>>
        /\ thrown = NoThrow

\* a batch for an Email hook whose condition gate would otherwise be in force
\* has been turned away
C4_Witness ==
    /\ BulkGated
    /\ pc = "done"
    /\ hook.notification.type = "Email"
    /\ Len(param.newData.rows) = MaxBatch
    /\ hook.condition
    /\ ~param.testHook

\* a batch invocation whose condition gate is in force
BatchGated == param.newData.isArray /\ hook.condition /\ ~param.testHook

RECURSIVE Matching(_, _, _)

\* the first n records whose check came out truthy, in their order
Matching(rows, chks, n) ==
    IF n = 0
       THEN <<>>
       ELSE IF IsTrue(chks[n].result)
               THEN Append(Matching(rows, chks, n - 1), rows[n])
               ELSE Matching(rows, chks, n - 1)

\* C5: in a batch invocation with hook.condition set and testHook false, each
\* record of newData is checked once, in order, against the filters fetched
\* for it; the records handed to constructWebHookData are exactly those whose
\* check was satisfied, in their original order; and when every record has
\* been checked and none satisfied the filters the invocation is Skipped
\* without any payload being constructed.
C5_BatchIsFiltered ==
    BatchGated =>
        /\ Len(checks) <= Len(param.newData.rows)
        /\ \A i \in 1..Len(checks) :
                /\ checks[i].on = "newData"
                /\ checks[i].data = param.newData.rows[i]
                /\ checks[i].result = ValidateCondition(checks[i].filters, param.newData.rows[i], SourceType)
                /\ param.testFilters.set => checks[i].filters = param.testFilters.list
        /\ \A k \in 1..Len(constructed) :
                /\ Len(checks) = Len(param.newData.rows)
                /\ constructed[k].newData =
                        Batch(Matching(param.newData.rows, checks, Len(checks)))
                /\ constructed[k].newData.rows # <<>>
        /\ ( /\ pc \in {"deliver", "awaiting", "done"}
             /\ Len(checks) = Len(param.newData.rows)
             /\ Matching(param.newData.rows, checks, Len(checks)) = <<>>
             /\ caught = NoErr )
           => outcome = "Skipped" /\ constructed = <<>> /\ calls = <<>> /\ ~dispatched

\* a batch of which one record was dropped and one kept has reached payload
\* construction
C5_Witness ==
    /\ BatchGated
    /\ Len(constructed) = 1
    /\ Len(param.newData.rows) = MaxBatch
    /\ Len(constructed[1].newData.rows) = MaxBatch - 1
    /\ ~IsTrue(checks[1].result)

\* the condition gate is not in force
Bypassed == ~hook.condition \/ param.testHook

\* C6 as stated: with hook.condition false or testHook true, an invocation the
\* bulk gate does not stop always enters the delivery switch.
C6_BypassAlwaysDelivers ==
    ( /\ Bypassed
      /\ pc = "done"
      /\ ~(param.newData.isArray /\ TypeOf(hook.notification) # "URL") )
    => dispatched

\* C6 amended: with hook.condition false or testHook true no filter is fetched
\* or evaluated; once the notification has been parsed, an invocation the bulk
\* gate does not stop goes on to the delivery switch whatever prevData and
\* newData contain, and only the bulk gate ends it as Skipped; a notification
\* that is not JSON ends it as Failed before the gates.
C6_BypassDeliversOnceParsed ==
    Bypassed =>
        /\ filters = NoFilters
        /\ checks = <<>>
        /\ ( pc # "start" /\ hook.notification.form # "string" /\ ~BulkGated )
                => ( pc = "deliver" \/ dispatched )
        /\ outcome = "Skipped" => BulkGated
        /\ ( pc # "start" /\ hook.notification.form = "string" )
                => ( outcome = "Failed" /\ ~dispatched )

\* a test invocation of a conditional hook entered the delivery switch with a
\* new record that the hook's stored filters reject
C6_Witness ==
    /\ hook.condition
    /\ param.testHook
    /\ dispatched
    /\ ~param.testFilters.set
    /\ ~param.newData.isArray
    /\ param.newData.row # Null
    /\ ~IsTrue(ValidateCondition(storedFilters, param.newData.row, SourceType))

-----------------------------------------------------------------------------
(* Properties of invokeWebhook: errors and logs *)

\* C7: when throwErrorOnFailure is not set, invokeWebhook throws nothing to
\* its caller.
C7_NothingPropagates ==
    ~param.throwErrorOnFailure => thrown = NoThrow

C9_AgentsUnlessAllowed ==
    \A i \in 1..Len(calls) :
        ( calls[i].channel = "URL" /\ env.NC_ALLOW_LOCAL_HOOKS # "true" ) =>
            /\ calls[i].request.agents
            /\ calls[i].request.agentUrl = calls[i].request.url
            /\ calls[i].request.url =
                    parseBody(hook.notification.payload.path,
                              constructWebHookData(hook, constructed[i].prevData,
                                                   constructed[i].newData))

\* a request was issued with NC_ALLOW_LOCAL_HOOKS set to 'false'
C9_Witness ==
    /\ calls # <<>>
    /\ calls[1].channel = "URL"
    /\ env.NC_ALLOW_LOCAL_HOOKS = "false"
    /\ calls[1].request.agents

\* a delivery call was issued, failed, and throwErrorOnFailure is set
DeliveryFailedLoudly ==
    /\ pc = "done"
    /\ calls # <<>>
    /\ caught # NoErr
    /\ param.throwErrorOnFailure

\* the advice to set NC_ALLOW_LOCAL_HOOKS=true is due: not EE, or on-prem
AdviceDue == env.isEE # "true" \/ env.isOnPrem = "true"

\* C10 as stated: a URL delivery refused because the target resolves to a
\* private IP is rethrown as the private-network error, with the advice
\* exactly when the deployment is not EE or is on-prem; every other delivery
\* error is rethrown unchanged.
C10_OnlyRefusalsRewritten ==
    DeliveryFailedLoudly =>
        IF calls[1].channel = "URL" /\ caught = AgentRefusal
           THEN thrown.kind = "privateNetwork" /\ (thrown.advice <=> AdviceDue)
           ELSE thrown = Rethrow(caught)

\* C10 amended: a failed delivery whose error is an axios error with 'private
\* IP address' in its message or in the message of its response body (a
\* refusal by the filtering agent is one) is rethrown as the private-network
\* error, with the advice exactly when the deployment is not EE or is on-prem;
\* every other delivery error is rethrown unchanged.
C10_PrivateIpErrorsRewritten ==
    DeliveryFailedLoudly =>
        /\ IF caught.isAxiosError /\ (caught.privateIpMessage \/ caught.response = "privateIp")
              THEN thrown.kind = "privateNetwork" /\ (thrown.advice <=> AdviceDue)
              ELSE thrown = Rethrow(caught)
        /\ ( calls[1].channel = "URL" /\ caught = AgentRefusal )
                => thrown.kind = "privateNetwork"

\* a refusal by the filtering agent was rethrown without the advice in an EE
\* deployment that is not on-prem
C10_Witness ==
    /\ DeliveryFailedLoudly
    /\ calls[1].channel = "URL"
    /\ caught = AgentRefusal
    /\ thrown.kind = "privateNetwork"
    /\ env.isEE = "true"
    /\ env.isOnPrem = "false"
    /\ ~thrown.advice

-----------------------------------------------------------------------------
(* Properties of invokeWebhook: the payload *)

\* the data the body template of the i-th request was rendered against
Envelope(i) == calls[i].request.data.data

\* the i-th call is the HTTP request of a v2 hook for bulkInsert fed a batch
BulkInsertCall(i) ==
    /\ calls[i].channel = "URL"
    /\ hook.version = "v2"
    /\ hook.operation = "bulkInsert"
    /\ param.newData.isArray

\* C11 as stated: for a v2 bulkInsert hook, a bulk insert of N rows produces an
\* envelope of type records.<event>.bulkInsert with rows_inserted = N and no
\* rows key.
C11_CountsEveryInsertedRow ==
    \A i \in 1..Len(calls) :
        BulkInsertCall(i) =>
            /\ Envelope(i).type = <<"records", hook.event, "bulkInsert">>
            /\ Envelope(i).has_rows_inserted
            /\ Envelope(i).rows_inserted = Len(param.newData.rows)
            /\ ~Envelope(i).has_rows

\* C11 amended: for a v2 bulkInsert hook fed a batch, the envelope has type
\* records.<event>.bulkInsert, no rows key, and rows_inserted equal to the
\* number of records handed to payload construction: all N records when the
\* condition gate is bypassed, and only those that satisfied the filters when
\* it is in force.
C11_CountsRowsHandedOver ==
    \A i \in 1..Len(calls) :
        BulkInsertCall(i) =>
            /\ Envelope(i).envelope
            /\ Envelope(i).type = <<"records", hook.event, "bulkInsert">>
            /\ Envelope(i).has_rows_inserted
            /\ ~Envelope(i).has_rows
            /\ Envelope(i).rows_inserted = Len(constructed[i].newData.rows)
            /\ Bypassed => Envelope(i).rows_inserted = Len(param.newData.rows)
            /\ BatchGated =>
                    Envelope(i).rows_inserted =
                        Len(Matching(param.newData.rows, checks, Len(checks)))

\* a bulkInsert envelope was sent for a batch of which the filters kept one
\* record and dropped another
C11_Witness ==
    /\ Len(calls) = 1
    /\ BulkInsertCall(1)
    /\ BatchGated
    /\ Len(param.newData.rows) = MaxBatch
    /\ Envelope(1).rows_inserted = MaxBatch - 1

\* C12: constructWebHookData returns newData itself for a hook that is not v2;
\* for a v2 hook it returns an envelope with type, id, table_id and
\* table_name, with previous_rows (an array, a single record wrapped) exactly
\* when prevData is present, with rows (an array, a single record wrapped)
\* exactly when the operation is not bulkInsert and newData is present, and
\* with rows_inserted exactly when the operation is bulkInsert.
C12_EnvelopeShape ==
    \A i \in 1..Len(calls) :
        calls[i].channel = "URL" =>
            LET prev == constructed[i].prevData
                new == constructed[i].newData
                e == Envelope(i)
            IN  IF hook.version # "v2"
                   THEN ~e.envelope /\ e.raw = new
                   ELSE /\ e.envelope
                        /\ e.type = <<"records", hook.event, hook.operation>>
                        /\ e.id # ""
                        /\ e.table_id # ""
                        /\ e.table_name # ""
                        /\ e.has_previous_rows <=> (prev.isArray \/ prev.row # Null)
                        /\ e.has_previous_rows =>
                                e.previous_rows = IF prev.isArray THEN prev.rows
                                                                  ELSE <<prev.row>>
                        /\ e.has_rows <=> ( /\ hook.operation # "bulkInsert"
                                            /\ (new.isArray \/ new.row # Null) )
                        /\ e.has_rows =>
                                e.rows = IF new.isArray THEN new.rows ELSE <<new.row>>
                        /\ e.has_rows_inserted <=> hook.operation = "bulkInsert"

\* a v2 envelope was sent for a single new record with a previous record
C12_Witness ==
    /\ Len(calls) = 1
    /\ calls[1].channel = "URL"
    /\ hook.version = "v2"
    /\ hook.operation = "insert"
    /\ Envelope(1).has_previous_rows
    /\ Envelope(1).has_rows
    /\ Len(Envelope(1).rows) = 1
    /\ ~constructed[1].newData.isArray

\* C13: the templates of an Email notification (to, subject, html) and of a
\* plugin notification (body) are rendered against the envelope that
\* constructWebHookData builds for the hook and the records.
C13_TemplatesSeeEnvelope ==
    \A i \in 1..Len(calls) :
        LET p == notification.payload
            e == constructWebHookData(hook, param.prevData, newData)
            r == calls[i].request
        IN  /\ calls[i].channel = "Email" =>
                    /\ r.to = parseBody(p.to, e)
                    /\ r.subject = parseBody(p.subject, e)
                    /\ r.html = parseBody(p.body, e)
            /\ calls[i].channel \notin {"Email", "URL"} => r.body = parseBody(p.body, e)

\* the fields of the i-th request that parseBody produced, each with its template
RenderedFields(i) ==
    LET p == notification.payload
        r == calls[i].request
    IN  CASE calls[i].channel = "URL" -> { <<p.path, r.url>>, <<p.body, r.data>> }
          [] calls[i].channel = "Email" ->
                { <<p.to, r.to>>, <<p.subject, r.subject>>, <<p.body, r.html>> }
          [] OTHER -> { <<p.body, r.body>> }

\* C14: parseBody never throws: a template that fails to compile or render
\* comes back as the original string, and an empty template comes back as it
\* is; so no request field is ever a raised error.
C14_ParseBodyNeverThrows ==
    \A i \in 1..Len(calls) :
        \A f \in RenderedFields(i) :
            /\ f[2] # Threw
            /\ f[1] \in MalformedTemplates \cup {""} => f[2] = Rendered(f[1], Null)
            /\ f[2].text = f[1]

\* a mail was sent whose body template is malformed and whose recipient
\* template references nothing
C14_Witness ==
    /\ Len(calls) = 1
    /\ calls[1].channel = "Email"
    /\ notification.payload.body \in MalformedTemplates
    /\ calls[1].request.html = Rendered(notification.payload.body, Null)
    /\ calls[1].request.subject.data # Null

-----------------------------------------------------------------------------
(* Properties of invokeWebhook: the life of an invocation *)

\* the invocation is over in exactly one terminal state, or still running
OneOutcome ==
    /\ outcome \in {"Running", "Delivered", "Skipped", "Failed"}
    /\ pc = "done" <=> outcome \in {"Delivered", "Skipped", "Failed"}

\* at most one delivery call, none by a skipped invocation, and a delivery
\* that failed is the end of the invocation
AtMostOneCall ==
    /\ Len(calls) <= 1
    /\ outcome = "Skipped" => calls = <<>>
    /\ outcome = "Delivered" => caught = NoErr
    /\ ( calls # <<>> /\ caught # NoErr ) => ( pc = "done" /\ outcome = "Failed" )

\* C15: every invocation ends, in exactly one of Delivered, Skipped and Failed,
\* and stays there; it makes at most one delivery call, none when Skipped, and
\* a failed delivery is not retried.
C15_TerminatesOnce ==
    /\ [](OneOutcome /\ AtMostOneCall)
    /\ [][outcome # "Running" => outcome' = outcome /\ calls' = calls]_vars
    /\ <>(pc = "done")

\* a delivery call failed and the invocation is over
C15_Witness ==
    /\ pc = "done"
    /\ outcome = "Failed"
    /\ Len(calls) = 1
    /\ caught # NoErr
    /\ insert = "resolved"

\* the log level and the edition call for a log record of this outcome
LoggingEnabled ==
    \/ /\ outcome = "Delivered"
       /\ \/ env.NC_AUTOMATION_LOG_LEVEL = "ALL"
          \/ env.isEE = "true" /\ env.NC_AUTOMATION_LOG_LEVEL = ""
    \/ /\ outcome = "Failed"
       /\ \/ env.NC_AUTOMATION_LOG_LEVEL \in {"ERROR", "ALL"}
          \/ env.isEE = "true"

\* C16: an invocation inserts at most one HookLog record; it starts the insert
\* of exactly one when logging is enabled for its outcome and the delivery
\* switch was entered; it inserts none when it ends as Skipped; the record in
\* the store is the one it built.
C16_OneRecordPerAttempt ==
    /\ Len(hookLogs) <= 1
    /\ outcome = "Skipped" => ( insert = "none" /\ hookLogs = <<>> )
    /\ ( pc = "done" /\ dispatched /\ LoggingEnabled ) => insert # "none"
    /\ insert = "resolved" => ( Len(hookLogs) = 1 /\ hookLogs[1].log = hookLog )

\* every record the condition gate has to look at has been checked
GateFinished ==
    /\ BatchGated => Len(checks) = Len(param.newData.rows)
    /\ SingleGated => ( checks # <<>> /\ LastCheck.on = "newData" )

\* C17: the steps of an invocation happen in order: every record has been
\* checked before the payload is constructed and no check is made after it;
\* the payload is constructed before the call is issued; the delivery call has
\* returned or failed before a log record is built and its insert started; no
\* insert is under way while the delivery is in flight.
C17_StepsInOrder ==
    /\ []( /\ constructed # <<>> => GateFinished
           /\ calls # <<>> => GateFinished
           /\ \A i \in 1..Len(calls) : calls[i].channel = "URL" => Len(constructed) >= i
           /\ pc \in {"start", "getFilters", "new", "batch", "deliver", "awaiting"} =>
                    ( hookLog = NoLog /\ insert = "none" /\ hookLogs = <<>> )
           /\ insert # "none" => ( pc = "done" /\ outcome \in {"Delivered", "Failed"} ) )
    /\ [][constructed # <<>> => checks' = checks]_vars
    /\ [][insert # "none" => calls' = calls /\ constructed' = constructed]_vars

\* a filtered batch was delivered and the log record of the delivery is in
\* the store
C17_Witness ==
    /\ BatchGated
    /\ Len(checks) = MaxBatch
    /\ Len(constructed) = 1
    /\ Len(calls) = 1
    /\ outcome = "Delivered"
    /\ insert = "resolved"

\* C18: a rejection of HookLog.insert changes nothing about the invocation:
\* the insert is started when invokeWebhook is already leaving, and while it is
\* in flight, whether it then resolves or rejects, the outcome, what was thrown
\* to the caller and the calls made stay as they are; a rejection leaves the
\* store as it was.
C18_InsertFailureIsSwallowed ==
    /\ [](insert # "none" => pc = "done")
    /\ [][insert = "inflight" =>
            /\ outcome' = outcome
            /\ thrown' = thrown
            /\ caught' = caught
            /\ calls' = calls
            /\ pc' = pc]_vars
    /\ [][insert' = "rejected" => hookLogs' = hookLogs]_vars

\* the insert of the log of a successful delivery was rejected
C18_Witness ==
    /\ insert = "rejected"
    /\ outcome = "Delivered"
    /\ thrown = NoThrow
    /\ hookLog.kind = "success"
    /\ hookLogs = <<>>

-----------------------------------------------------------------------------
(* Properties of validateCondition: the value returned *)

\* C19: validateCondition returns true or false, never null or undefined,
\* whatever the filter list.
C19_ReturnsBoolean ==
    vcResult # "pending" => vcResult \in {"true", "false"}

\* a leaf on a date column whose sub-operation needs a number or a date and
\* whose filter value is missing
MissingValueLeaf(f) ==
    /\ ~f.is_group
    /\ f.fk_column_id = "Due"
    /\ f.comparison_op \notin {"empty", "blank", "notempty", "notblank"}
    /\ f.comparison_sub_op \in
            {"daysAgo", "daysFromNow", "exactDate", "pastNumberOfDays", "nextNumberOfDays"}
    /\ f.value = Null

\* C20: a call of validateCondition whose sibling list holds a date leaf that
\* lacks the value its sub-operation needs returns undefined, which is neither
\* false nor a thrown error, whatever the other siblings and the record are;
\* so does the call made for a group that holds such a leaf.
C20_MissingValueYieldsUndefined ==
    vcResult # "pending" =>
        /\ ( \E i \in 1..Len(vcFilters) : MissingValueLeaf(vcFilters[i]) )
                => vcResult = "undefined"
        /\ \A i \in 1..Len(vcFilters) :
                ( /\ vcFilters[i].is_group
                  /\ \E k \in 1..Len(vcFilters[i].children) :
                        MissingValueLeaf(vcFilters[i].children[k]) )
                => ValidateCondition(vcFilters[i].children, vcData, vcClient) = "undefined"

\* the call returned undefined for a list whose first sibling is satisfied and
\* whose second is a daysAgo leaf without a value, on a record that has a date
C20_Witness ==
    /\ vcResult = "undefined"
    /\ Len(vcFilters) >= 2
    /\ ~vcFilters[1].is_group
    /\ IsTrue(LeafResult(vcFilters[1], vcData, vcClient))
    /\ MissingValueLeaf(vcFilters[2])
    /\ vcData.Due # Null

\* the set U of user ids in the record value of the filter's column
IdsOfRecord ==
    LET cell == vcData.Owner
    IN  IF cell.t = "users" THEN { cell.v[i] : i \in 1..Len(cell.v) }
        ELSE IF cell.t = "user" /\ cell.v # "" THEN {cell.v}
        ELSE {}

\* a token with the blanks around it removed
Trimmed(token) ==
    IF token \in {"u3", " u3", "u3 "} THEN "u3"
    ELSE IF token \in {"u2", " u2", "u2 "} THEN "u2"
    ELSE IF token \in {"u1", " u1", "u1 "} THEN "u1"
    ELSE token

\* the set F of trimmed comma-separated ids of the filter value
IdsOfFilter ==
    LET value == vcFilters[1].value
    IN  IF value.t = "str" THEN { Trimmed(value.v[i]) : i \in 1..Len(value.v) } ELSE {}

\* C21: for a User, CreatedBy or LastModifiedBy column, with U the user ids of
\* the record value and F the trimmed comma-separated ids of the filter value,
\* anyof is true iff U and F intersect, nanyof is its negation, allof is true
\* iff F is a subset of U, nallof is its negation, empty/blank iff U is empty,
\* notempty/notblank iff U is non-empty, and any other operator gives false
\* without an error.
C21_UserOperators ==
    ( /\ vcResult # "pending"
      /\ Len(vcFilters) = 1
      /\ ~vcFilters[1].is_group
      /\ vcFilters[1].fk_column_id \in {"Owner", "Creator", "Editor"} ) =>
        LET op == vcFilters[1].comparison_op
            U == IdsOfRecord
            F == IdsOfFilter
        IN  /\ vcResult \in {"true", "false"}
            /\ op = "anyof" => ( IsTrue(vcResult) <=> U \cap F # {} )
            /\ op = "nanyof" => ( IsTrue(vcResult) <=> U \cap F = {} )
            /\ op = "allof" => ( IsTrue(vcResult) <=> F \subseteq U )
            /\ op = "nallof" => ( IsTrue(vcResult) <=> ~(F \subseteq U) )
            /\ op \in {"empty", "blank"} => ( IsTrue(vcResult) <=> U = {} )
            /\ op \in {"notempty", "notblank"} => ( IsTrue(vcResult) <=> U # {} )
            /\ op \notin {"anyof", "nanyof", "allof", "nallof", "empty", "blank",
                          "notempty", "notblank"} => vcResult = "false"

\* anyof came out true for the users u1, u2 and the filter value "u2, u3"
C21_Witness ==
    /\ vcResult = "true"
    /\ Len(vcFilters) = 1
    /\ vcFilters[1].comparison_op = "anyof"
    /\ vcFilters[1].value = Csv(<<"u2", " u3">>)
    /\ vcData.Owner = UserArr(<<"u1", "u2">>)

-----------------------------------------------------------------------------
(* generateLookupSelectQuery *)

\* number of relation hops in a lookup chain
MaxDepth == 3

LOOKUP_VAL_SEPARATOR == "___"

\* the tables of the base; a relation may lead to the table it starts from
Tables == {"t1", "t2"}

\* a relation column by relation.type, relationCol.meta?.bt and the related
\* table; only one-to-one relation columns carry the marker
RelationCols ==
    { r \in [type : {"bt", "hm", "mm", "oo"}, bt : BOOLEAN, table : Tables] :
        r.type # "oo" => ~r.bt }

\* the context of the base a table lives in; the caller's is that of "t1"
ContextOf(table) == IF table = "t1" THEN "base1" ELSE "base2"

\* a hop as it was resolved: the relation, the column it leads to, the
\* refContext its getParentChildContext returned, and the contexts in which
\* that column and (for a QrCode or Barcode column) its options were fetched
Hop(relation, target, targetContext, optionsContext) ==
    [type |-> relation.type, bt |-> relation.bt, table |-> relation.table,
     target |-> target, refContext |-> ContextOf(relation.table),
     targetContext |-> targetContext, optionsContext |-> optionsContext]

\* the column types that continue a chain
HopTypes == {"Lookup", "LinkToAnotherRecord"}

\* the column types that end a chain, one for each case of the switch
TerminalTypes == {"Rollup", "Formula", "DateTime", "Attachment", "SingleLineText"}

\* baseModelSqlv2 by its client
Dialects == {"pg", "mysql", "sqlite", "mssql"}

\* NcError.badRequest and NcError.notImplemented throw
NcError(kind, message) == [kind |-> kind, message |-> message]

Returned(builder) == [status |-> "returned", builder |-> builder]
Failed(error) == [status |-> "failed", error |-> error]

\* getAlias() hands out prefix + i and increments i
NextCount(i) == i + 1

\* the junction table under the alias handed out last
MmTableAliasReused(count) == count - 1

\* const mmTableAlias = getAlias(), at the given counter
MmTableAlias(count) == count

\* a one-to-one relation treated as belongs-to whatever the marker
NormaliseAsBt(relation) == IF relation.type = "oo" THEN "bt" ELSE relation.type

\* relationType after the one-to-one case
Normalise(relation) ==
    IF relation.type = "oo"
       THEN IF relation.bt THEN "bt" ELSE "hm"
       ELSE relation.type

\* the caller's alias, which no generated alias equals: the generated ones
\* are counted from 0
RootAlias == 0 - 1

\* a table in the from-list of the statement: the model of the relation it
\* is the table of, its alias and the aliases its conditions refer to
Source(model, table, as, on) == [model |-> model, table |-> table, as |-> as, on |-> on]

\* the model whose table a hop selects from or joins
ModelOf(relationType) == IF relationType = "hm" THEN "child" ELSE "parent"

\* a flag that follows the latest hop
Reset(flag, relationType) == relationType = "bt"

\* isBtLookup = false in the has-many and many-to-many branches
Cleared(flag, relationType) == IF relationType = "bt" THEN flag ELSE FALSE

\* every field type let in
AnyFieldType(uidt) == TRUE

\* column.uidt is Lookup or LinkToAnotherRecord
IsValidFieldType(uidt) == uidt \in {"Lookup", "LinkToAnotherRecord"}

\* an Attachment column selected whatever isAggregation is
AttachmentAlways(isAggregation) == TRUE

\* an Attachment column is selected only under isAggregation
AttachmentAllowed(isAggregation) == isAggregation

\* the columns the target of a relation at the given depth may be: a further
\* Lookup, or the end of the chain, which comes at MaxDepth at the latest
TargetTypes(depth) == IF depth < MaxDepth THEN {"Lookup"} \cup TerminalTypes ELSE TerminalTypes

InitLk ==
    /\ VcIdle /\ WhIdle /\ AggIdle /\ MwIdle /\ FhIdle
    /\ lkArgs \in [column : HopTypes \cup {"Formula"}, isAggregation : {NotRead},
                   dialect : {NotRead}]
    /\ lkPc = "entry"
    /\ relations = <<>>
    /\ lookupColumn = "none"
    /\ selectQb = [from |-> <<>>, select |-> <<>>]
    /\ isBtLookup = TRUE
    /\ aliasCount = 0
    /\ prevAlias = 0
    /\ lkResult = [status |-> "pending"]

\* the first alias is taken and the field type checked
Enter ==
    /\ lkPc = "entry"
    /\ aliasCount' = NextCount(aliasCount)
    /\ prevAlias' = aliasCount
    /\ IF ~IsValidFieldType(lkArgs.column)
          THEN /\ lkPc' = "failed"
               /\ lkResult' = Failed(NcError("badRequest", "Invalid field type"))
          ELSE /\ lkPc' = "first"
               /\ UNCHANGED lkResult
    /\ UNCHANGED <<vcVars, fhVars, whVars, aggVars, mwVars, lkArgs, relations, lookupColumn, selectQb,
                   isBtLookup>>

\* the first hop: the relation is resolved and the subquery root built; the
\* target is fetched in the hop's refContext, and a QrCode (or Barcode) target
\* is replaced by its value column, its options being fetched in the caller's
\* context
FirstHop ==
    /\ lkPc = "first"
    /\ \E relation \in RelationCols, target \in TargetTypes(1) \cup {"QrCode"},
          valueColumn \in {"SingleLineText"} :
            LET relationType == Normalise(relation)
                alias == prevAlias
                mmTableAlias == MmTableAlias(aliasCount)
                refContext == ContextOf(relation.table)
            IN  /\ relations' = << Hop(relation, target, refContext,
                                       IF target \in {"QrCode", "Barcode"}
                                          THEN ContextOf("t1") ELSE "none") >>
                /\ isBtLookup' = Cleared(isBtLookup, relationType)
                /\ IF relationType = "mm"
                      THEN /\ selectQb' = [selectQb EXCEPT !.from =
                                              << Source("parent", relation.table, alias, {}),
                                                 Source("mm", "mm", mmTableAlias,
                                                        {alias, RootAlias}) >>]
                           /\ aliasCount' = NextCount(aliasCount)
                      ELSE /\ selectQb' = [selectQb EXCEPT !.from =
                                              << Source(ModelOf(relationType), relation.table,
                                                        alias, {RootAlias}) >>]
                           /\ UNCHANGED aliasCount
                /\ lookupColumn' = IF target \in {"QrCode", "Barcode"} THEN valueColumn ELSE target
    /\ lkPc' = "nested"
    /\ UNCHANGED <<vcVars, fhVars, whVars, aggVars, mwVars, lkArgs, prevAlias, lkResult>>

\* one turn of the while loop: a further hop joined onto the previous alias;
\* its target is fetched in `refContext`, the context the first hop returned,
\* and is not looked into
NestedHop ==
    /\ lkPc = "nested"
    /\ lookupColumn \in HopTypes
    /\ \E relation \in RelationCols, target \in TargetTypes(Len(relations) + 1) \cup {"QrCode"} :
            LET relationType == Normalise(relation)
                nestedAlias == aliasCount
                mmTableAlias == MmTableAlias(NextCount(aliasCount))
                refContext == relations[1].refContext
            IN  /\ relations' = Append(relations, Hop(relation, target, refContext, "none"))
                /\ isBtLookup' = Cleared(isBtLookup, relationType)
                /\ IF relationType = "mm"
                      THEN /\ selectQb' = [selectQb EXCEPT !.from =
                                              @ \o << Source("mm", "mm", mmTableAlias,
                                                             {prevAlias, selectQb.from[1].as}),
                                                      Source("parent", relation.table,
                                                             nestedAlias, {mmTableAlias}) >>]
                           /\ aliasCount' = NextCount(NextCount(aliasCount))
                      ELSE /\ selectQb' = [selectQb EXCEPT !.from =
                                              Append(@, Source(ModelOf(relationType),
                                                               relation.table, nestedAlias,
                                                               {prevAlias}))]
                           /\ aliasCount' = NextCount(aliasCount)
                /\ prevAlias' = nestedAlias
                /\ lookupColumn' = target
    /\ UNCHANGED <<vcVars, fhVars, whVars, aggVars, mwVars, lkArgs, lkPc, lkResult>>

\* what the switch on lookupColumn.uidt selects
Selected(uidt, alias) ==
    CASE uidt \in {"Links", "Rollup"} -> [kind |-> "rollup", alias |-> alias]
      [] uidt = "Formula" -> [kind |-> "formula", alias |-> alias]
      [] uidt \in {"DateTime", "LastModifiedTime", "CreatedTime"} ->
            [kind |-> "selectObject", alias |-> alias]
      [] OTHER -> [kind |-> "column", alias |-> alias]

\* the terminal column is selected; a chain of belongs-to hops returns here
Select ==
    /\ lkPc = "nested"
    /\ lookupColumn \notin HopTypes
    /\ \E isAggregation \in IF lookupColumn = "Attachment" THEN BOOLEAN ELSE {NotRead} :
          /\ lkArgs' = [lkArgs EXCEPT !.isAggregation = isAggregation]
          /\ IF lookupColumn = "Attachment" /\ ~AttachmentAllowed(isAggregation)
                THEN /\ lkPc' = "failed"
                     /\ lkResult' = Failed(NcError("badRequest",
                                        "Group by using attachment column is not supported"))
                     /\ UNCHANGED selectQb
                ELSE /\ selectQb' = [selectQb EXCEPT !.select =
                                        Append(@, Selected(lookupColumn, prevAlias))]
                     /\ IF isBtLookup
                           THEN /\ lkPc' = "returned"
                                /\ lkResult' = Returned(selectQb')
                           ELSE /\ lkPc' = "wrap"
                                /\ UNCHANGED lkResult
    /\ UNCHANGED <<vcVars, fhVars, whVars, aggVars, mwVars, relations, lookupColumn, isBtLookup,
                   aliasCount, prevAlias>>

\* every dialect wrapped the way Postgres is
AggregateAsPg(dialect) ==
    [raw |-> "json_agg(??)::text", bindings |-> <<"lookupColumn.id">>]

\* the aggregate expression of the dialect; none for any other dialect
Aggregate(dialect) ==
    CASE dialect = "pg" -> [raw |-> "json_agg(??)::text", bindings |-> <<"lookupColumn.id">>]
      [] dialect = "mysql" ->
            [raw |-> "cast(JSON_ARRAYAGG(??) as NCHAR)", bindings |-> <<"lookupColumn.id">>]
      [] dialect = "sqlite" ->
            [raw |-> "group_concat(??, ?)",
             bindings |-> <<"lookupColumn.id", LOOKUP_VAL_SEPARATOR>>]
      [] OTHER -> [raw |-> "", bindings |-> <<>>]

\* the built query becomes a derived table under an aggregate
Wrap ==
    /\ lkPc = "wrap"
    /\ \E dialect \in Dialects :
            LET subQueryAlias == aliasCount
            IN  /\ lkArgs' = [lkArgs EXCEPT !.dialect = dialect]
                /\ IF Aggregate(dialect).raw # ""
                      THEN /\ lkPc' = "returned"
                           /\ lkResult' =
                                 Returned([select |-> <<Aggregate(dialect)>>,
                                           from |-> <<[sub |-> selectQb, as |-> subQueryAlias]>>])
                      ELSE /\ lkPc' = "failed"
                           /\ lkResult' =
                                 Failed(NcError("notImplemented",
                                           "This operation on Lookup/LTAR for this database"))
    /\ aliasCount' = NextCount(aliasCount)
    /\ UNCHANGED <<vcVars, fhVars, whVars, aggVars, mwVars, relations, lookupColumn, selectQb,
                   isBtLookup, prevAlias>>

NextLk == Enter \/ FirstHop \/ NestedHop \/ Select \/ Wrap

SpecLk == InitLk /\ [][NextLk]_vars

-----------------------------------------------------------------------------
(* The aggregated query, run over the related rows *)

\* number of related rows
MaxRows == 2

\* a text value by its characters
Text(chars) == [t |-> "text", v |-> chars]

\* what the terminal column of a related row may hold
AggValues == {Null, Text(<<>>), Text(<<"a">>), Text(<<"a", "_", "_", "_", "b">>)}

\* the characters of the separator
Chars(str) == IF str = "___" THEN <<"_", "_", "_">> ELSE <<>>

RECURSIVE JoinWith(_, _)
\* the texts one after the other with the separator between them
JoinWith(texts, sep) ==
    IF Len(texts) = 0 THEN <<>>
    ELSE IF Len(texts) = 1 THEN texts[1]
    ELSE texts[1] \o sep \o JoinWith(Tail(texts), sep)

\* a value as JSON text
JsonOf(value) ==
    IF value = Null THEN <<"n", "u", "l", "l">> ELSE <<"\"">> \o value.v \o <<"\"">>

\* what the database yields for the aggregate over the rows: the JSON
\* aggregates keep NULLs as null, group_concat skips them, and each yields NULL
\* over no rows
Evaluate(aggregate, rows) ==
    IF aggregate.raw = "group_concat(??, ?)"
       THEN LET present == SelectSeq(rows, LAMBDA r : r # Null)
            IN  IF present = <<>>
                   THEN Null
                   ELSE Text(JoinWith([i \in 1..Len(present) |-> present[i].v],
                                      Chars(aggregate.bindings[2])))
       ELSE IF rows = <<>>
               THEN Null
               ELSE Text(<<"[">> \o JoinWith([i \in 1..Len(rows) |-> JsonOf(rows[i])],
                                             <<",", " ">>) \o <<"]">>)

InitAgg ==
    /\ VcIdle /\ WhIdle /\ LkIdle /\ MwIdle /\ FhIdle
    /\ aggDialect \in {"pg", "mysql", "sqlite"}
    /\ aggRows \in SeqsOf(AggValues, 0, MaxRows)
    /\ aggValue = [t |-> "pending"]

\* the database runs the aggregated query for one record
RunQuery ==
    /\ aggValue = [t |-> "pending"]
    /\ aggValue' = Evaluate(Aggregate(aggDialect), aggRows)
    /\ UNCHANGED <<vcVars, fhVars, whVars, lkVars, mwVars, aggDialect, aggRows>>

SpecAgg == InitAgg /\ [][RunQuery]_vars


-----------------------------------------------------------------------------
(* The global auth middleware *)

\* navigateTo(path) with its query
Redirect(path, query) == [kind |-> "redirect", path |-> path, query |-> query]

\* the middleware returns nothing: the navigation goes on to `to`
Proceed == [kind |-> "proceed"]

\* to.fullPath: the path and whether the ?logout query follows it
FullPath(route) == <<route.path, route.logout>>

\* the query of the redirect to a sign page: fullPath is not '/' and starts
\* with a slash that no '?' follows
ContinueQuery(route) ==
    IF route.path # "/" THEN [continueAfterSignIn |-> FullPath(route)] ELSE <<>>

\* auth required only where a page says so
NeedsAuthIfSet(route) == route.requiresAuth = "true"

\* to.meta.requiresAuth || typeof to.meta.requiresAuth === 'undefined'
NeedsAuth(route) == route.requiresAuth = "true" \/ route.requiresAuth = "undefined"

\* always to the home page
TurnAwayHome(from) == Redirect("/", <<>>)

\* where a signed-in user is sent from a page that needs no auth
TurnAway(from) ==
    IF from.requiresAuth = "false" THEN Redirect("/", <<>>) ELSE Redirect(from.path, <<>>)

InitMw ==
    /\ VcIdle /\ WhIdle /\ LkIdle /\ AggIdle /\ FhIdle
    /\ toRoute \in [path : {"/", "/signin", "/nc/p1"}, public : BOOLEAN,
                    requiresAuth : {"true", "false", "undefined"},
                    typeOrId : {"base", "nc"}, logout : BOOLEAN]
    /\ fromRoute \in {[path |-> "/signin", requiresAuth |-> "false"],
                      [path |-> "/nc/p1", requiresAuth |-> "undefined"],
                      [path |-> "/", requiresAuth |-> "true"]}
    /\ appInfo \in [firstUser : BOOLEAN, oauth : BOOLEAN, workspace : {"none", "/ws1"}]
    /\ signedIn \in BOOLEAN
    /\ mwPc = "start"
    /\ navigation = [kind |-> "pending"]
    /\ localStorage = <<>>

\* up to the first request: the home page under a workspace host leads to the
\* workspace page
BeginNavigation ==
    /\ mwPc = "start"
    /\ IF appInfo.workspace # "none" /\ toRoute.path = "/"
          THEN /\ navigation' = Redirect(appInfo.workspace, <<>>)
               /\ mwPc' = "done"
          ELSE /\ mwPc' = IF ~signedIn /\ appInfo.oauth THEN "tryGoogleAuth"
                                                       ELSE "tryShortTokenAuth"
               /\ UNCHANGED navigation
    /\ UNCHANGED <<vcVars, fhVars, whVars, lkVars, aggVars, toRoute, fromRoute, appInfo, signedIn,
                   localStorage>>

\* sign-in data of an OAuth flow, if present and accepted, signs the user in
TryGoogleAuth ==
    /\ mwPc = "tryGoogleAuth"
    /\ \E token \in BOOLEAN : signedIn' = (signedIn \/ token)
    /\ mwPc' = "tryShortTokenAuth"
    /\ UNCHANGED <<vcVars, fhVars, whVars, lkVars, aggVars, toRoute, fromRoute, appInfo, navigation,
                   localStorage>>

\* a short-lived token, if present and accepted, signs the user in; then the
\* route is judged up to the next request
TryShortTokenAuth ==
    /\ mwPc = "tryShortTokenAuth"
    /\ \E token \in BOOLEAN, restricted \in BOOLEAN, otherBase \in BOOLEAN :
          /\ signedIn' = (signedIn \/ token)
          /\ IF toRoute.public \/ toRoute.typeOrId = "base"
                THEN /\ navigation' = Proceed
                     /\ mwPc' = "done"
                     /\ UNCHANGED localStorage
                ELSE IF NeedsAuth(toRoute) /\ ~signedIn'
                THEN IF appInfo.firstUser
                        THEN /\ navigation' = Redirect("/signup", ContinueQuery(toRoute))
                             /\ mwPc' = "done"
                             /\ localStorage' = IF toRoute.path # "/"
                                                   THEN FullPath(toRoute) ELSE localStorage
                        ELSE /\ mwPc' = "refreshToken"
                             /\ UNCHANGED <<navigation, localStorage>>
                ELSE IF toRoute.requiresAuth = "false" /\ signedIn'
                THEN /\ IF toRoute.logout
                           THEN mwPc' = "signOut" /\ UNCHANGED navigation
                           ELSE mwPc' = "done" /\ navigation' = TurnAway(fromRoute)
                     /\ UNCHANGED localStorage
                ELSE /\ IF restricted
                           THEN mwPc' = "done" /\ navigation' = Redirect("/", <<>>)
                           ELSE IF otherBase
                           THEN mwPc' = "loadRoles" /\ UNCHANGED navigation
                           ELSE mwPc' = "done" /\ navigation' = Proceed
                     /\ UNCHANGED localStorage
    /\ UNCHANGED <<vcVars, fhVars, whVars, lkVars, aggVars, toRoute, fromRoute, appInfo>>

\* state.refreshToken({}) resolved or rejected
RefreshToken ==
    /\ mwPc = "refreshToken"
    /\ \E refreshed \in BOOLEAN :
          /\ signedIn' = refreshed
          /\ IF ~refreshed
                THEN /\ localStorage' = FullPath(toRoute)
                     /\ navigation' = Redirect("/signin", ContinueQuery(toRoute))
                ELSE /\ navigation' = Proceed
                     /\ UNCHANGED localStorage
    /\ mwPc' = "done"
    /\ UNCHANGED <<vcVars, fhVars, whVars, lkVars, aggVars, toRoute, fromRoute, appInfo>>

\* state.signOut({ redirectToSignin: true }) resolved
SignOut ==
    /\ mwPc = "signOut"
    /\ signedIn' = FALSE
    /\ navigation' = TurnAway(fromRoute)
    /\ mwPc' = "done"
    /\ UNCHANGED <<vcVars, fhVars, whVars, lkVars, aggVars, toRoute, fromRoute, appInfo, localStorage>>

\* loadRoles() resolved: a guest of the base is sent home
LoadRoles ==
    /\ mwPc = "loadRoles"
    /\ \E guest \in BOOLEAN :
          navigation' = IF guest THEN Redirect("/", <<>>) ELSE Proceed
    /\ mwPc' = "done"
    /\ UNCHANGED <<vcVars, fhVars, whVars, lkVars, aggVars, toRoute, fromRoute, appInfo, signedIn,
                   localStorage>>

NextMw ==
    BeginNavigation \/ TryGoogleAuth \/ TryShortTokenAuth \/ RefreshToken \/ SignOut
        \/ LoadRoles

SpecMw == InitMw /\ [][NextMw]_vars

-----------------------------------------------------------------------------
(* populateFillHandleStrictCopy *)

\* number of highlighted cells
MaxHighlighted == 2

\* number of rows the fill covers, the highlighted ones included
MaxFillRows == 4

\* what a highlighted cell may hold: a string, a number, null, undefined, ''
FillCells == {Text(<<"2">>), Num(8), Null, [t |-> "undefined"], Text(<<>>)}

\* the highlighted cells of the two tests
TestData ==
    << << Text(<<"2">>), Text(<<"4">>), Text(<<"6">>), Num(8) >>,
       << Text(<<"2">>), Text(<<"4">>), Text(<<"6">>), Num(8), Text(<<"1", "A">>),
          Text(<<"1", "B">>), Null, [t |-> "undefined"], Text(<<>>) >> >>

\* numberOfRows of the two tests
TestRows == <<8, 20>>

\* what the two tests expect
TestExpected ==
    << << Text(<<"2">>), Text(<<"4">>), Text(<<"6">>), Num(8) >>,
       << Text(<<"2">>), Text(<<"4">>), Text(<<"6">>), Num(8), Text(<<"1", "A">>),
          Text(<<"1", "B">>), Null, [t |-> "undefined"], Text(<<>>), Text(<<"2">>),
          Text(<<"4">>) >> >>

\* the fill has not returned yet
Pending == [pending |-> TRUE]

\* a copy that stops after one pass over the highlighted cells
StrictCopyOnce(highlightedData, numberOfRows) ==
    LET count == IF numberOfRows - Len(highlightedData) < Len(highlightedData)
                    THEN numberOfRows - Len(highlightedData) ELSE Len(highlightedData)
    IN  [i \in 1..count |-> highlightedData[i]]

\* the cells below the highlighted ones, copied from them in turn
StrictCopy(highlightedData, numberOfRows) ==
    [i \in 1..(numberOfRows - Len(highlightedData)) |->
        highlightedData[((i - 1) % Len(highlightedData)) + 1]]

InitFill ==
    /\ VcIdle /\ WhIdle /\ LkIdle /\ AggIdle /\ MwIdle
    /\ fillHandle \in
          { [highlightedData |-> TestData[k], numberOfRows |-> TestRows[k],
             result |-> Pending] : k \in 1..2 }
          \cup { f \in [highlightedData : SeqsOf(FillCells, 1, MaxHighlighted),
                        numberOfRows : 1..MaxFillRows, result : {Pending}] :
                   f.numberOfRows >= Len(f.highlightedData) }

populateFillHandleStrictCopy ==
    /\ fillHandle # <<>>
    /\ fillHandle.result = Pending
    /\ fillHandle' = [fillHandle EXCEPT
                         !.result = [values |-> StrictCopy(fillHandle.highlightedData,
                                                           fillHandle.numberOfRows)]]
    /\ UNCHANGED <<vcVars, whVars, lkVars, aggVars, mwVars>>

SpecFill == InitFill /\ [][populateFillHandleStrictCopy]_vars

-----------------------------------------------------------------------------
(* Properties of generateLookupSelectQuery *)

\* the hop is single-valued: belongs-to, or one-to-one from the side that
\* carries the marker
SingleValued(relation) == relation.type = "bt" \/ (relation.type = "oo" /\ relation.bt)

EveryHopBelongsTo == \A i \in 1..Len(relations) : SingleValued(relations[i])

\* the returned builder is the built query itself, not an aggregate over it
ReturnedPlain == lkPc = "returned" /\ lkResult.builder = selectQb

ReturnedAggregate ==
    /\ lkPc = "returned"
    /\ Len(lkResult.builder.from) = 1
    /\ "sub" \in DOMAIN lkResult.builder.from[1]
    /\ lkResult.builder.from[1].sub = selectQb

AliasesOf(qb) == [i \in 1..Len(qb.from) |-> qb.from[i].as]

StatementAliases ==
    IF lkPc = "returned" /\ lkResult.builder # selectQb
       THEN AliasesOf(selectQb) \o AliasesOf(lkResult.builder)
       ELSE AliasesOf(selectQb)

\* C23: the aliases used inside one statement (first hop, nested hops,
\* junction tables, aggregation subquery) are pairwise distinct, however
\* often the same table recurs.
C23_AliasesDistinct ==
    lkPc \in {"nested", "wrap", "returned"} =>
        \A i, j \in 1..Len(StatementAliases) :
            i # j => StatementAliases[i] # StatementAliases[j]

\* an aggregated statement over three hops into the same table, two of them
\* through a junction table: six aliases
C23_Witness ==
    /\ ReturnedAggregate
    /\ Len(relations) = 3
    /\ \A i \in 1..3 : relations[i].table = "t1"
    /\ relations[1].type = "mm" /\ relations[2].type = "mm"
    /\ Len(StatementAliases) = 6

C25_InvalidFieldTypeAtEntry ==
    (lkPc # "entry" /\ lkArgs.column \notin {"Lookup", "LinkToAnotherRecord"}) =>
        /\ lkPc = "failed"
        /\ lkResult = Failed(NcError("badRequest", "Invalid field type"))
        /\ relations = <<>>
        /\ selectQb.from = <<>> /\ selectQb.select = <<>>

C25_Witness ==
    /\ lkArgs.column = "Formula"
    /\ lkResult = Failed(NcError("badRequest", "Invalid field type"))

\* the latest hop of the chain after a step
LastHop == relations'[Len(relations')]

LastSource == selectQb'.from[Len(selectQb'.from)]

\* C26: at every hop, first or nested, a one-to-one relation is built as a
\* belongs-to hop when the relation column's meta.bt is set (isBtLookup is
\* left as it is) and as a has-many hop otherwise (isBtLookup is cleared).
C26_OneToOneByMarker ==
    [][ (Len(relations') = Len(relations) + 1 /\ LastHop.type = "oo") =>
            IF LastHop.bt
               THEN LastSource.model = "parent" /\ isBtLookup' = isBtLookup
               ELSE LastSource.model = "child" /\ isBtLookup' = FALSE ]_vars

\* a marked one-to-one hop first, an unmarked one nested
C26_Witness ==
    /\ Len(relations) = 2
    /\ relations[1].type = "oo" /\ relations[1].bt
    /\ relations[2].type = "oo" /\ ~relations[2].bt
    /\ ~isBtLookup

AttachmentError ==
    Failed(NcError("badRequest", "Group by using attachment column is not supported"))

\* C27: with an Attachment as terminal column the call fails with the
\* not-supported error when isAggregation is false and selects the plain
\* column reference when isAggregation is true.
C27_AttachmentOnlyUnderAggregation ==
    (lkPc \in {"wrap", "returned", "failed"} /\ lookupColumn = "Attachment") =>
        IF lkArgs.isAggregation
           THEN /\ selectQb.select = <<[kind |-> "column", alias |-> prevAlias]>>
                /\ lkResult # AttachmentError
           ELSE /\ lkPc = "failed"
                /\ lkResult = AttachmentError
                /\ selectQb.select = <<>>

C27_Witness ==
    /\ lkPc = "returned"
    /\ lookupColumn = "Attachment"
    /\ lkArgs.isAggregation
    /\ selectQb.select = <<[kind |-> "column", alias |-> prevAlias]>>

RECURSIVE Split(_, _)
\* the pieces of the text between the occurrences of the separator
Split(chars, sep) ==
    LET n == Len(sep)
        hits == { i \in 1..(Len(chars) - n + 1) : SubSeq(chars, i, i + n - 1) = sep }
    IN  IF hits = {}
           THEN <<chars>>
           ELSE LET first == CHOOSE i \in hits : \A j \in hits : i <= j
                IN  <<SubSeq(chars, 1, first - 1)>>
                        \o Split(SubSeq(chars, first + n, Len(chars)), sep)

\* the number of elements of the JSON array the text spells: the commas
\* outside strings, plus one
JsonArrayLength(chars) ==
    LET quotesBefore(i) == Cardinality({ j \in 1..(i - 1) : chars[j] = "\"" })
        commas == { i \in 1..Len(chars) : chars[i] = "," /\ quotesBefore(i) % 2 = 0 }
    IN  IF Len(chars) <= 2 THEN 0 ELSE Cardinality(commas) + 1

\* the number of scalar values the aggregated value decomposes into; NULL
\* stands for none
Decomposed ==
    IF aggValue = Null THEN 0
    ELSE IF aggDialect = "sqlite" THEN Len(Split(aggValue.v, <<"_", "_", "_">>))
    ELSE JsonArrayLength(aggValue.v)

\* C28: for each dialect the aggregated value over N related rows decomposes
\* into exactly N scalar values: a JSON array of length N on Postgres and
\* MySQL, N tokens when the SQLite string is split on '___'.
C28_DecomposesIntoN ==
    aggValue # [t |-> "pending"] => Decomposed = Len(aggRows)

-----------------------------------------------------------------------------
(* Properties of the auth middleware *)

\* the navigation was decided for a visitor who is not signed in, to a route
\* that requires auth (or says nothing) and is neither public nor a shared base
Unauthenticated ==
    /\ mwPc = "done"
    /\ ~signedIn
    /\ toRoute.requiresAuth \in {"true", "undefined"}
    /\ ~toRoute.public
    /\ toRoute.typeOrId # "base"

\* the home page was requested under a workspace host
WorkspaceHome == appInfo.workspace # "none" /\ toRoute.path = "/"

ToSignPage ==
    /\ navigation.kind = "redirect"
    /\ navigation.path = IF appInfo.firstUser THEN "/signup" ELSE "/signin"

AddedSources == (Len(selectQb.from) + 1)..Len(selectQb'.from)

\* C32: in each nested hop every join and correlation condition added for the
\* hop refers only to the alias of the immediately preceding hop (prevAlias)
\* and to the aliases created for this hop, never to the alias of an earlier
\* hop or to the root table.
C32_NestedConditionsLocal ==
    [][ (Len(relations) >= 1 /\ Len(relations') = Len(relations) + 1) =>
            \A i \in AddedSources :
                selectQb'.from[i].on \subseteq
                    ({prevAlias} \cup { selectQb'.from[j].as : j \in AddedSources }) ]_vars

\* C33: at every hop the far side of the relation (the hop's target column
\* and its column options) is looked up in the refContext returned by that
\* hop's own getParentChildContext, never in the caller's context nor in that
\* of an earlier hop.
C33_FarSideInOwnContext ==
    \A i \in 1..Len(relations) :
        /\ relations[i].targetContext = relations[i].refContext
        /\ relations[i].optionsContext \in {"none", relations[i].refContext}

\* C34: when the column reached at the end of a chain is a QrCode or Barcode
\* column, at any depth, the column selected is the value column it encodes.
C34_QrCodeSubstituted ==
    (lkPc \in {"wrap", "returned"} /\ relations[Len(relations)].target \in {"QrCode", "Barcode"}) =>
        /\ lookupColumn \notin {"QrCode", "Barcode"}
        /\ selectQb.select # <<>>

\* C31: populateFillHandleStrictCopy returns exactly numberOfRows minus
\* length(highlightedData) values, the i-th (from 0) being
\* highlightedData[i mod length] unchanged, null, undefined and '' included;
\* on the inputs of the two tests the result is what the tests expect.
C31_StrictCopyCycles ==
    (fillHandle.result # Pending) =>
        LET data == fillHandle.highlightedData
            values == fillHandle.result.values
        IN  /\ Len(values) = fillHandle.numberOfRows - Len(data)
            /\ \A i \in 0..(Len(values) - 1) : values[i + 1] = data[(i % Len(data)) + 1]
            /\ \A k \in 1..2 :
                  (data = TestData[k] /\ fillHandle.numberOfRows = TestRows[k]) =>
                        values = TestExpected[k]

\* nine cells, among them null, undefined and '', filled over twenty rows:
\* eleven values, the last two from the start of the selection again
C31_Witness ==
    /\ fillHandle.result # Pending
    /\ fillHandle.numberOfRows = 20
    /\ Len(fillHandle.result.values) = 11
    /\ fillHandle.result.values[7] = Null
    /\ fillHandle.result.values[8] = [t |-> "undefined"]
    /\ fillHandle.result.values[9] = Text(<<>>)
    /\ fillHandle.result.values[11] = Text(<<"4">>)

-----------------------------------------------------------------------------
(* Properties of the date branch of validateCondition *)

\* the condition of a call that has one, alone or in a group
TheLeaf == IF vcFilters[1].is_group THEN vcFilters[1].children[1] ELSE vcFilters[1]

\* the `now` the sub-operations start from, for the column of a filter
ReferenceDay(filter) ==
    IF isDateMonthFormat(Columns[filter.fk_column_id].date_format)
       THEN FirstOfMonth(Today) ELSE Today

\* C35: on a date-family column with operator isWithin and a record value
\* present, a past sub-operation is true exactly when the record's day lies in
\* the closed range [boundary, now], a next sub-operation exactly when it lies
\* in [now, boundary], both endpoints included.
C35_WithinClosedRange ==
    LET sub == TheLeaf.comparison_sub_op
        boundary == SubOpValue(sub, TheLeaf.value, ReferenceDay(TheLeaf)).v
        day == vcData.Due.v
    IN  (/\ vcResult # "pending"
         /\ Columns[TheLeaf.fk_column_id].uidt \in DateTypes
         /\ TheLeaf.comparison_op = "isWithin"
         /\ sub \in PastSubOps \cup NextSubOps
         /\ sub \in ValueSubOps => Truthy(TheLeaf.value)
         /\ Truthy(vcData.Due))
        => IF sub \in PastSubOps
              THEN (vcResult = "true") <=> (boundary <= day /\ day <= Today)
              ELSE (vcResult = "true") <=> (Today <= day /\ day <= boundary)

\* the sub-operations whose date is derived from now alone
RelativeSubOps ==
    {"today", "tomorrow", "yesterday", "oneWeekAgo", "oneWeekFromNow", "oneMonthAgo",
     "oneMonthFromNow"}

\* C36: for a month-only date format both the reference date and the record's
\* value are set back to the first of the month before eq, neq, gt, lt, lte and
\* gte compare them, so two dates in the same month always compare equal.
C36_MonthFormatTruncatesBoth ==
    LET sub == TheLeaf.comparison_sub_op
        op == TheLeaf.comparison_op
    IN  (/\ vcResult # "pending"
         /\ TheLeaf.fk_column_id = "Month"
         /\ op \in DateOps \ {"isWithin"}
         /\ sub \in RelativeSubOps
         /\ Truthy(vcData.Due))
        => /\ vcResult = DateCompare(op, sub, Day(FirstOfMonth(vcData.Due.v)),
                                     SubOpValue(sub, TheLeaf.value, FirstOfMonth(Today)),
                                     "undefined", FormatNow(DateFormat(vcClient), "Date"))
           /\ (sub = "today" /\ FirstOfMonth(vcData.Due.v) = FirstOfMonth(Today))
                 => vcResult = FromBool(op \in {"eq", "lte", "gte"})

RECURSIVE HasIsWithin(_)

\* some leaf of the tree has the operator isWithin
HasIsWithin(siblings) ==
    \E i \in 1..Len(siblings) :
        IF siblings[i].is_group
           THEN HasIsWithin(siblings[i].children)
           ELSE siblings[i].comparison_op = "isWithin"

\* C38: the dialect does not influence the verdict outside isWithin: for a
\* filter tree with no isWithin leaf and any record, validateCondition returns
\* the same value with client 'mysql2' as with any other client.
C38_ClientOnlyInIsWithin ==
    (vcResult # "pending" /\ ~HasIsWithin(vcFilters)) =>
        \A client \in Clients : ValidateCondition(vcFilters, vcData, client) = vcResult

\* a date-and-time column compared under mysql2, inside a group
C38_Witness ==
    /\ vcResult = "true"
    /\ vcClient = "mysql2"
    /\ vcFilters[1].is_group
    /\ TheLeaf.fk_column_id = "Seen"
    /\ TheLeaf.comparison_op = "gt"
    /\ TheLeaf.comparison_sub_op = "oneMonthAgo"

-----------------------------------------------------------------------------
(* Further properties of invokeWebhook *)

\* C37: an invocation mutates nothing shared except by appending to the log
\* store: the hook definition passed in, its notification payload and header
\* list included, is after every step equal to what it was before.
C37_HookUntouched == [][hook' = hook]_vars

\* C39: within one invocation every condition check is made against the same
\* filter tree, also when the stored filters change while the invocation is
\* suspended, and that tree is the one written to the log record's conditions.
C39_OneSnapshot ==
    /\ \A i, j \in 1..Len(checks) : checks[i].filters = checks[j].filters
    /\ \A i \in 1..Len(checks) :
            (hookLog.kind # "none" /\ hookLog.conditions.set)
                => hookLog.conditions.list = checks[i].filters

-----------------------------------------------------------------------------
(* Further properties of validateCondition *)

\* C40: a date leaf that lacks the value its sub-operation needs makes only
\* its own result undefined: the call returns what the fold over all siblings
\* gives with that result, so a list whose fold is true still yields true.
C40_MissingValueOnlyItsLeaf ==
    (vcResult # "pending" /\ LacksValue(vcFilters, vcData)) =>
        vcResult = CoercingFold(vcFilters, vcData, Len(vcFilters))

\* C40 amended: a date leaf that lacks the value its sub-operation needs ends
\* the call for its sibling list with undefined: what the earlier siblings
\* folded into the accumulator is dropped and the later siblings do not count,
\* so a list in which an earlier `or` filter is true yields undefined.
C40_MissingValueEndsCall ==
    vcResult # "pending" =>
        \A j \in 1..Len(vcFilters) :
            MissingValueLeaf(vcFilters[j]) =>
                /\ vcResult = ValidateCondition(SubSeq(vcFilters, 1, j), vcData, vcClient)
                /\ vcResult = "undefined"
                /\ vcResult # "true"

\* an `or` filter that is true, the leaf without its value, and another `or`
\* filter that is true: the fold over the three is true, the call undefined
C40_Witness ==
    /\ vcResult = "undefined"
    /\ Len(vcFilters) = 3
    /\ \A i \in {1, 3} :
            /\ ~vcFilters[i].is_group
            /\ vcFilters[i].logical_op = "or"
            /\ IsTrue(LeafResult(vcFilters[i], vcData, vcClient))
    /\ MissingValueLeaf(vcFilters[2])
    /\ CoercingFold(vcFilters, vcData, 3) = "true"

====
